---------------------------- MODULE Spec2Model ----------------------------
(***************************************************************************)
(* QuickShot: the burst pipeline of src/services/geminiService.ts          *)
(* (lines 379-763: resizeImage, stitchBurst, applyRegionBlur,              *)
(* applyRobustGrayscaleAndContrast, processImageNatural).                  *)
(*                                                                         *)
(* Seven specifications share the operators that model the code:           *)
(*   SpecGeom  the numeric data path of one burst at real sizes: raw frame *)
(*             -> resizeImage -> stitchBurst's layout -> the downscale of  *)
(*             processImageNatural -> its quadrant rectangles;             *)
(*   Spec      the event-level behaviour of stitchBurst followed by        *)
(*             processImageNatural on small bitmaps, pixel by pixel;       *)
(*   SpecApp   the application around them: capture, develop and publish   *)
(*             of one burst (App.tsx, Camera.tsx, the detail screens,      *)
(*             socialService.ts);                                          *)
(*   SpecCam   the camera screen alone, with takeBurst calls that overlap  *)
(*             (Camera.tsx 471-512);                                       *)
(*   SpecShot  one captureFrame call (Camera.tsx 445-469);                 *)
(*   SpecGray  one pixel of applyRobustGrayscaleAndContrast;               *)
(*   SpecPlay  the playback loop of a view (part_000, part_002, Feed.tsx). *)
(***************************************************************************)
EXTENDS Integers, Sequences, FiniteSets, TLC

VARIABLES
    gStage,     \* SpecGeom: how far the data path has run
    gImg,       \* SpecGeom: the decoded raw frame, [w, h]
    gResized,   \* SpecGeom: resizeImage's canvas, [w, h]
    gGrid,      \* SpecGeom: stitchBurst's canvas, [w, h, rects]
    gCanvas,    \* SpecGeom: processImageNatural's working canvas, [w, h]
    gQuads,     \* SpecGeom: the floored rectangles it blurs and crops
    images,           \* stitchBurst's argument: the raw frames, in capture order
    stitchPc,         \* where the stitchBurst call stands
    imgLoad,          \* per frame: "pending", "loaded" or "error"
    resizedCanvases,  \* resizeImage's canvases
    stitchCanvas,     \* the canvas stitchBurst draws the grid on
    stitchPromise,    \* [state, value] of the promise stitchBurst returned
    stitchSettles,    \* how often stitchBurst has called resolve or reject
    decodes,          \* Image objects given a src by stitchBurst
    canvases,         \* canvas elements stitchBurst has created
    ctxFails,         \* getContext('2d') calls that have returned null
    procPc,           \* where the processImageNatural call stands
    filterType,       \* its filter argument
    canvas,           \* its working canvas: the composite
    indices,          \* the two quadrants it blurred
    passLog,          \* the passes it applied, in order
    skipped,          \* the sub-steps it skipped for want of a 2D context
    processedFrames,  \* the frame canvases it extracted
    procPromise,      \* [state, value] of the promise it returned
    variant,          \* SpecApp: which detail screen is built in
    dbInit,           \* SpecApp: "loading" until the stored photos are loaded
    photos,           \* SpecApp: App's photos state, id -> Photo
    db,               \* SpecApp: the photo store of storageService, id -> Photo
    view,             \* SpecApp: App's view state
    selectedPhotoId,  \* SpecApp: App's selectedPhotoId state, 0 for null
    activeFilter,     \* SpecApp: CameraView's activeFilter state
    camera,           \* SpecApp: CameraView's burst in progress
    captures,         \* SpecApp: handleCapture calls waiting for savePhoto
    nextPhotoId,      \* SpecApp: the photos created so far
    detail,           \* SpecApp: PhotoDetail's component state
    runs,             \* SpecApp: develop and upload calls in flight
    nextRun,          \* SpecApp: the develop calls started so far
    feed,             \* SpecApp: FEED_POSTS, the posts added by uploadPost
    filterAtBurst,    \* SpecApp: per photo, the filter active when its burst started
    deleted,          \* SpecApp: the ids handleDeletePhoto was called with
    shot,             \* SpecShot: one captureFrame call, [video, facingMode, stage, frame]
    pixel,            \* SpecGray: one pixel of applyRobustGrayscaleAndContrast
    player            \* SpecPlay: the playback loop of a detail screen

gvars == <<gStage, gImg, gResized, gGrid, gCanvas, gQuads>>

svars == <<images, stitchPc, imgLoad, resizedCanvases, stitchCanvas,
           stitchPromise, stitchSettles, decodes, canvases>>

pvars == <<procPc, filterType, canvas, indices, passLog, skipped,
           processedFrames, procPromise>>

uvars == <<shot, pixel, player>>

appvars == <<variant, dbInit, photos, db, view, selectedPhotoId, activeFilter,
             camera, captures, nextPhotoId, detail, runs, nextRun, feed,
             filterAtBurst, deleted>>

avars == <<appvars, uvars>>

vars == <<gStage, gImg, gResized, gGrid, gCanvas, gQuads,
          images, stitchPc, imgLoad, resizedCanvases, stitchCanvas,
          stitchPromise, stitchSettles, decodes, canvases, ctxFails,
          procPc, filterType, canvas, indices, passLog, skipped,
          processedFrames, procPromise,
          variant, dbInit, photos, db, view, selectedPhotoId, activeFilter,
          camera, captures, nextPhotoId, detail, runs, nextRun, feed,
          filterAtBurst, deleted, shot, pixel, player>>

-----------------------------------------------------------------------------
(* Bounds of the model *)

\* Widest raw frame of SpecGeom (the camera caps a frame at 1080).
MaxFrameW == 1100

\* Longest array of frames handed to stitchBurst.
MaxFrames == 5

\* Largest frame edge, in pixels, of the pixel-level specification.
MaxTile == 4

\* Outcomes of Math.random() told apart for the grain tile.
NumSeeds == 2

\* takeBurst calls in flight at once in SpecCam.
MaxBursts == 2

\* Longest edge of a video frame handed to captureFrame.
MaxVideoEdge == 1920

\* Interval timers a view sets in a behaviour of SpecPlay.
MaxTimers == 3

\* Develop calls and uploads started in a behaviour of SpecApp.
MaxRuns == 2

(* Program constants *)

TARGET_SIZE == 800

MAX_WIDTH == 1600

BURST_SIZE == 4

\* captureFrame's cap on the side of a raw frame (Camera.tsx 453).
MAX_CAPTURE_SIZE == 1080

-----------------------------------------------------------------------------
(* Arithmetic helpers *)

Min(a, b) == IF a < b THEN a ELSE b

Max(a, b) == IF a > b THEN a ELSE b

-----------------------------------------------------------------------------
(* resizeImage (geminiService.ts 385-395) *)

\* The widths w > 800 up to 1200 for which the IEEE-754 double product
\* w * (800 / w) is 799.99999999999989 instead of 800: assigning it to
\* canvas.width truncates it to 799.
DoubleRoundsBelow == {1078, 1089, 1156, 1199}

\* d * scale truncated to the canvas dimension, with
\* scale = Math.min(1, maxWidth / w).  For the d of this model (w, 2w, w/2)
\* the double product is a power of two times w * (maxWidth / w).
ScaleDim(d, w, maxWidth) ==
    IF w <= maxWidth THEN d
    ELSE LET exact == (d * maxWidth) \div w
         IN  IF (d * maxWidth) % w = 0 /\ w \in DoubleRoundsBelow
               THEN exact - 1 ELSE exact

ResizeImage(img, maxWidth) ==
    [w |-> ScaleDim(img.w, img.w, maxWidth),
     h |-> ScaleDim(img.h, img.w, maxWidth)]

-----------------------------------------------------------------------------
(* stitchBurst's layout (geminiService.ts 430-464) *)

\* Math.floor(size * 0.05); the double product floors like size / 20.
Padding(size) == size \div 20

\* Math.floor(size * 0.02)
Gap(size) == size \div 50

GridWidth(size) == (size * 2) + Gap(size) + (Padding(size) * 2)

GridHeight(size) == (size * 2) + Gap(size) + (Padding(size) * 2)

\* The rectangle frame `index` (0..3) is drawn into.
DrawRect(index, size) ==
    LET col == index % 2
        row == index \div 2
    IN  [x |-> Padding(size) + (col * (size + Gap(size))),
         y |-> Padding(size) + (row * (size + Gap(size))),
         w |-> size,
         h |-> size]

-----------------------------------------------------------------------------
(* processImageNatural's downscale (geminiService.ts 544-566) *)

TargetWidth(imgW) == IF imgW > MAX_WIDTH THEN MAX_WIDTH ELSE imgW

\* Mutant of TargetHeight: the height is not scaled.
TargetHeightUnscaled(imgW, imgH) == imgH

\* img.height * (MAX_WIDTH / img.width), truncated by canvas.height.  For
\* the square sheets stitchBurst makes (width <= 1696) the double product
\* is exact.
TargetHeight(imgW, imgH) ==
    IF imgW > MAX_WIDTH THEN (imgH * MAX_WIDTH) \div imgW ELSE imgH

-----------------------------------------------------------------------------
(* processImageNatural's geometry (geminiService.ts 571-586) *)

\* The quadrants are kept unrounded.  With S = W / 2.12, uP = S * 0.05 and
\* uG = S * 0.02, every coordinate is a multiple of W / 212: the model keeps
\* the numerators (S = 100 W / 212, uP = 5 W / 212, uG = 2 W / 212).
UnitDen == 212

SNum(W) == 100 * W

PNum(W) == 5 * W

GNum(W) == 2 * W

Quadrants(W) ==
    <<[x |-> PNum(W),                     y |-> PNum(W),                     w |-> SNum(W), h |-> SNum(W)],
      [x |-> PNum(W) + SNum(W) + GNum(W), y |-> PNum(W),                     w |-> SNum(W), h |-> SNum(W)],
      [x |-> PNum(W),                     y |-> PNum(W) + SNum(W) + GNum(W), w |-> SNum(W), h |-> SNum(W)],
      [x |-> PNum(W) + SNum(W) + GNum(W), y |-> PNum(W) + SNum(W) + GNum(W), w |-> SNum(W), h |-> SNum(W)]>>

\* Mutant of Floor: Math.ceil.
Ceil(num) == (num + UnitDen - 1) \div UnitDen

\* Math.floor of a coordinate (applyRegionBlur 479-482, extraction 731-734).
Floor(num) == num \div UnitDen

FloorRect(q) ==
    [x |-> Floor(q.x), y |-> Floor(q.y), w |-> Floor(q.w), h |-> Floor(q.h)]

-----------------------------------------------------------------------------
(* Bitmaps: [w, h, px], px a function from <<x, y>> to <<r, g, b>>.  The   *)
(* canvases of the pipeline are opaque (the matte fill covers the sheet),  *)
(* so no alpha channel is kept.                                            *)

Coords(w, h) == (0..(w - 1)) \X (0..(h - 1))

NoCanvas == [w |-> 0, h |-> 0, px |-> <<>>]

Clamp(v) == Max(0, Min(255, v))

RECURSIVE SumCh(_, _, _)
SumCh(px, cells, c) ==
    IF cells = {} THEN 0
    ELSE LET p == CHOOSE q \in cells : TRUE
         IN  px[p][c] + SumCh(px, cells \ {p}, c)

MeanPixel(px, cells) ==
    IF Cardinality(cells) = 1 THEN px[CHOOSE p \in cells : TRUE]
    ELSE [c \in 1..3 |-> SumCh(px, cells, c) \div Cardinality(cells)]

\* The source columns (rows) that fall on destination column (row) i when
\* sw source pixels are resampled onto dw destination pixels.
Cells(i, sw, dw) ==
    IF dw >= sw THEN {(i * sw) \div dw}
    ELSE {u \in 0..(sw - 1) : (u * dw) \div sw = i}

\* drawImage(src, sx, sy, sw, sh, 0, 0, dw, dh) onto a fresh dw x dh canvas:
\* the browser's resampling as a box filter (a copy when the sizes agree).
Resampled(src, sx, sy, sw, sh, dw, dh) ==
    [w |-> dw, h |-> dh,
     px |-> [p \in Coords(dw, dh) |->
               MeanPixel(src.px,
                         {<<sx + u, sy + v>> :
                             u \in Cells(p[1], sw, dw), v \in Cells(p[2], sh, dh)})]]

InRect(p, r) ==
    /\ r.x <= p[1] /\ p[1] < r.x + r.w
    /\ r.y <= p[2] /\ p[2] < r.y + r.h

-----------------------------------------------------------------------------
(* Encoded images.  canvas.toDataURL('image/webp', q) is lossy: the bitmap *)
(* a later decode yields has the canvas's size but not exactly its pixels. *)
(* The codec is a deterministic function of the canvas that the source     *)
(* does not fix; the model stands it in by dropping each channel's low bit.*)

ToDataURL(cv, mime, quality) ==
    [mime |-> mime, quality |-> quality, w |-> cv.w, h |-> cv.h, px |-> cv.px]

Decoded(url) ==
    [w |-> url.w, h |-> url.h,
     px |-> [p \in Coords(url.w, url.h) |->
               [c \in 1..3 |-> (url.px[p][c] \div 2) * 2]]]

-----------------------------------------------------------------------------
(* Promises *)

Pending == [state |-> "pending", value |-> "none"]

\* resolve(value) and reject(reason): only the first call settles.
Settle(promise, state, value) ==
    IF promise.state = "pending" THEN [state |-> state, value |-> value]
    ELSE promise

\* Mutant of PromiseAll: Promise.allSettled, fulfilled once no load is
\* pending.
PromiseAllSettled(loads) ==
    IF \A i \in DOMAIN loads : loads[i] # "pending" THEN "fulfilled" ELSE "pending"

\* Promise.all over the frames' load promises (stitchBurst 411-414).
PromiseAll(loads) ==
    IF \E i \in DOMAIN loads : loads[i] = "error" THEN "rejected"
    ELSE IF \A i \in DOMAIN loads : loads[i] = "loaded" THEN "fulfilled"
    ELSE "pending"

-----------------------------------------------------------------------------
(* stitchBurst (geminiService.ts 397-474) *)

\* fillStyle '#0f0f11'
Matte == <<15, 15, 17>>

\* The decoded raw frames: a test pattern that differs from frame to frame
\* and from pixel to pixel, and is nowhere gray.
FramePixel(i, x, y) ==
    <<(40 + (50 * i) + (9 * x)) % 256,
      (230 - (45 * i) - (11 * y)) % 256,
      (90 + (20 * i) + (7 * x) + (13 * y)) % 256>>

FrameBitmap(i, dim) ==
    [w |-> dim.w, h |-> dim.h,
     px |-> [p \in Coords(dim.w, dim.h) |-> FramePixel(i, p[1], p[2])]]

\* Mutant of WrongLength: images.length < 4.
WrongLengthBelow(n) == n < BURST_SIZE

\* images.length !== 4
WrongLength(n) == n # BURST_SIZE

\* resizeImage(img, maxWidth) for frame i (1-based): the canvas, and whether
\* the frame was drawn on it (a null context leaves the canvas blank).
ResizedCanvas(i, dim, maxWidth, ctx) ==
    LET to == ResizeImage(dim, maxWidth)
        bm == FrameBitmap(i - 1, dim)
    IN  [w |-> to.w, h |-> to.h, drawn |-> ctx,
         px |-> IF ctx THEN Resampled(bm, 0, 0, dim.w, dim.h, to.w, to.h).px
                ELSE <<>>]

\* The grid (stitchBurst 430-464): the matte, then every resized canvas
\* drawn size x size at its rectangle, in index order.
RECURSIVE DrawGrid(_, _, _, _)
DrawGrid(px, rcs, size, i) ==
    IF i > Len(rcs) THEN px
    ELSE LET r  == DrawRect(i - 1, size)
             im == Resampled(rcs[i], 0, 0, rcs[i].w, rcs[i].h, size, size)
         IN  DrawGrid(IF rcs[i].drawn
                        THEN [p \in DOMAIN px |->
                                IF InRect(p, r) THEN im.px[<<p[1] - r.x, p[2] - r.y>>]
                                ELSE px[p]]
                        ELSE px,
                      rcs, size, i + 1)

StitchedCanvas(rcs) ==
    LET size == rcs[1].w
        gw == GridWidth(size)
        gh == GridHeight(size)
    IN  [w |-> gw, h |-> gh,
         px |-> DrawGrid([p \in Coords(gw, gh) |-> Matte], rcs, size, 1)]

\* getContext('2d') returns null when the runtime cannot give the canvas a
\* backing store.  The model injects a single fault: in one behaviour at
\* most one call returns null.  CtxOutcomes(n) are the ways n calls in a row
\* can turn out: TRUE is a context, FALSE is null.
Nulls(f) == Cardinality({i \in DOMAIN f : ~f[i]})

CtxLeft == IF ctxFails = 0 THEN 1 ELSE 0

CtxOutcomes(n) == {f \in [1..n -> BOOLEAN] : Nulls(f) <= CtxLeft}

\* The call: the length check, then one Image per frame with its src set
\* and the load handlers attached (397-414), all in one synchronous run.
StitchBurst ==
    /\ stitchPc = "idle"
    /\ \E n \in 0..MaxFrames, tile \in 1..MaxTile :
          /\ images' = [i \in 1..n |-> [w |-> tile, h |-> tile]]
          /\ IF WrongLength(n)
               THEN /\ stitchPromise' = Settle(stitchPromise, "rejected",
                                                "Burst requires exactly 4 images")
                    /\ stitchSettles' = stitchSettles + 1
                    /\ stitchPc' = "done"
                    /\ UNCHANGED <<imgLoad, decodes>>
               ELSE /\ imgLoad' = [i \in 1..n |-> "pending"]
                    /\ decodes' = n
                    /\ stitchPc' = "waiting"
                    /\ UNCHANGED <<stitchPromise, stitchSettles>>
    /\ UNCHANGED <<resizedCanvases, stitchCanvas, canvases, ctxFails>>
    /\ UNCHANGED pvars
    /\ UNCHANGED gvars
    /\ UNCHANGED avars

\* img.onload of frame i: its load promise is fulfilled.
ImgOnLoad(i) ==
    /\ stitchPc # "idle"
    /\ i \in DOMAIN imgLoad
    /\ imgLoad[i] = "pending"
    /\ imgLoad' = [imgLoad EXCEPT ![i] = "loaded"]
    /\ UNCHANGED <<images, stitchPc, resizedCanvases, stitchCanvas,
                   stitchPromise, stitchSettles, decodes, canvases, ctxFails>>
    /\ UNCHANGED pvars
    /\ UNCHANGED gvars
    /\ UNCHANGED avars

\* img.onerror of frame i: its load promise is rejected.
ImgOnError(i) ==
    /\ stitchPc # "idle"
    /\ i \in DOMAIN imgLoad
    /\ imgLoad[i] = "pending"
    /\ imgLoad' = [imgLoad EXCEPT ![i] = "error"]
    /\ UNCHANGED <<images, stitchPc, resizedCanvases, stitchCanvas,
                   stitchPromise, stitchSettles, decodes, canvases, ctxFails>>
    /\ UNCHANGED pvars
    /\ UNCHANGED gvars
    /\ UNCHANGED avars

\* The .then callback (415-471): resize every frame, lay the grid out, draw
\* it and resolve with the WebP data URL; reject when the grid canvas has no
\* context.
StitchThen ==
    /\ stitchPc = "waiting"
    /\ PromiseAll(imgLoad) = "fulfilled"
    /\ \E rctx \in CtxOutcomes(Len(images)) :
       \E ctx \in {c \in BOOLEAN : c \/ Nulls(rctx) < CtxLeft} :
          LET rcs == [i \in 1..Len(images) |->
                        ResizedCanvas(i, images[i], TARGET_SIZE, rctx[i])]
          IN  /\ resizedCanvases' = rcs
              /\ canvases' = canvases + Len(images) + 1
              /\ ctxFails' = ctxFails + Nulls(rctx) + (IF ctx THEN 0 ELSE 1)
              /\ IF ~ctx
                   THEN /\ stitchPromise' = Settle(stitchPromise, "rejected", "No context")
                        /\ UNCHANGED stitchCanvas
                   ELSE /\ stitchCanvas' = StitchedCanvas(rcs)
                        /\ stitchPromise' =
                              Settle(stitchPromise, "resolved",
                                     ToDataURL(StitchedCanvas(rcs), "image/webp", 85))
    /\ stitchSettles' = stitchSettles + 1
    /\ stitchPc' = "done"
    /\ UNCHANGED <<images, imgLoad, decodes>>
    /\ UNCHANGED pvars
    /\ UNCHANGED gvars
    /\ UNCHANGED avars

\* .catch(reject) (472): the first load error rejects the call.
StitchCatch ==
    /\ stitchPc = "waiting"
    /\ PromiseAll(imgLoad) = "rejected"
    /\ stitchPromise' = Settle(stitchPromise, "rejected", "error event")
    /\ stitchSettles' = stitchSettles + 1
    /\ stitchPc' = "done"
    /\ UNCHANGED <<images, imgLoad, resizedCanvases, stitchCanvas, decodes,
                   canvases, ctxFails>>
    /\ UNCHANGED pvars
    /\ UNCHANGED gvars
    /\ UNCHANGED avars

-----------------------------------------------------------------------------
(* The passes of processImageNatural (geminiService.ts 476-536, 588-750) *)

FilterTypes == {"HIPPO_400", "HIPPO_800", "WILLIAM_400", "WILLIAM_H"}

\* filterType.includes('WILLIAM')
IsBW(f) == f \in {"WILLIAM_400", "WILLIAM_H"}

\* applyRegionBlur (478-510) on the unrounded quadrant q: the region is drawn
\* onto a canvas of 15% of its size, at least 2 x 2, and drawn back.  With no
\* context for the small canvas the region is left as it is.
BlurReaches(q) == FloorRect(q).w >= 1 /\ FloorRect(q).h >= 1

\* Mutant of ApplyRegionBlur: the whole canvas goes through the small
\* canvas, not the region.
ApplyCanvasBlur(cv, q, ctx) ==
    LET small == Resampled(cv, 0, 0, cv.w, cv.h, 2, 2)
        back  == Resampled(small, 0, 0, 2, 2, cv.w, cv.h)
    IN  IF ~ctx THEN cv ELSE [cv EXCEPT !.px = back.px]

ApplyRegionBlur(cv, q, ctx) ==
    LET r  == FloorRect(q)
        sw == Max(2, (r.w * 15) \div 100)
        sh == Max(2, (r.h * 15) \div 100)
        small == Resampled(cv, r.x, r.y, r.w, r.h, sw, sh)
        back  == Resampled(small, 0, 0, sw, sh, r.w, r.h)
    IN  IF r.w < 1 \/ r.h < 1 \/ ~ctx THEN cv
        ELSE [cv EXCEPT !.px =
                [p \in DOMAIN cv.px |->
                    IF InRect(p, r) THEN back.px[<<p[1] - r.x, p[2] - r.y>>]
                    ELSE cv.px[p]]]

\* The CSS filter functions of ctx.filter, in hundredths.
Contrast(v, c) == Clamp(((c * ((2 * v) - 255)) + 25500) \div 200)

Brightness(v, b) == Clamp((v * b) \div 100)

Saturate(p, s) ==
    <<Clamp((((21300 + (787 * s)) * p[1]) + ((715 * (100 - s)) * p[2]) + ((72 * (100 - s)) * p[3])) \div 100000),
      Clamp((((213 * (100 - s)) * p[1]) + ((71500 + (285 * s)) * p[2]) + ((72 * (100 - s)) * p[3])) \div 100000),
      Clamp((((213 * (100 - s)) * p[1]) + ((715 * (100 - s)) * p[2]) + ((7200 + (928 * s)) * p[3])) \div 100000)>>

Sepia(p, a) ==
    <<Clamp((((100000 - (607 * a)) * p[1]) + ((769 * a) * p[2]) + ((189 * a) * p[3])) \div 100000),
      Clamp((((349 * a) * p[1]) + ((100000 - (314 * a)) * p[2]) + ((168 * a) * p[3])) \div 100000),
      Clamp((((272 * a) * p[1]) + ((534 * a) * p[2]) + ((100000 - (869 * a)) * p[3])) \div 100000)>>

\* ctx.filter per stock (615-636): contrast, saturate, brightness, sepia.
FilterLook(f) ==
    CASE f = "HIPPO_400"   -> [contrast |-> 108, saturate |-> 115, brightness |-> 102, sepia |-> 0]
      [] f = "HIPPO_800"   -> [contrast |-> 110, saturate |-> 120, brightness |-> 105, sepia |-> 15]
      [] f = "WILLIAM_400" -> [contrast |-> 110, saturate |-> 100, brightness |-> 100, sepia |-> 0]
      [] f = "WILLIAM_H"   -> [contrast |-> 120, saturate |-> 100, brightness |-> 110, sepia |-> 0]

Graded(p, f) ==
    LET k  == FilterLook(f)
        c1 == [c \in 1..3 |-> Contrast(p[c], k.contrast)]
        c2 == Saturate(c1, k.saturate)
        c3 == [c \in 1..3 |-> Brightness(c2[c], k.brightness)]
    IN  Sepia(c3, k.sepia)

\* The tint per stock (618, 623): blend mode, colour, alpha in thousandths.
Overlay(f) ==
    CASE f = "HIPPO_400" -> [mode |-> "screen",  color |-> <<20, 30, 40>>,    alpha |-> 50]
      [] f = "HIPPO_800" -> [mode |-> "overlay", color |-> <<255, 200, 150>>, alpha |-> 80]
      [] OTHER           -> [mode |-> "none",    color |-> <<0, 0, 0>>,       alpha |-> 0]

\* Canvas blend modes on one channel: backdrop cb, source cs.
Blend(mode, cb, cs) ==
    CASE mode = "screen"  -> (cb + cs) - ((cb * cs) \div 255)
      [] mode = "overlay" -> IF 2 * cb <= 255
                               THEN (2 * cb * cs) \div 255
                               ELSE 255 - ((2 * (255 - cb) * (255 - cs)) \div 255)
      [] OTHER            -> cs

\* The source composited over an opaque backdrop at alpha (thousandths).
Composite(mode, cb, cs, alpha) ==
    Clamp(cb + (((Blend(mode, cb, cs) - cb) * alpha) \div 1000))

\* STEP 2 (601-650): the canvas redrawn through ctx.filter (which a runtime
\* may ignore: filterOk), then the tint.
ApplyLook(cv, f, filterOk) ==
    LET o == Overlay(f)
    IN  [cv EXCEPT !.px =
            [p \in DOMAIN cv.px |->
                LET g == IF filterOk THEN Graded(cv.px[p], f) ELSE cv.px[p]
                IN  IF o.mode = "none" THEN g
                    ELSE [c \in 1..3 |-> Composite(o.mode, g[c], o.color[c], o.alpha)]]]

\* STEP 3 (661-673): grain intensity and opacity per stock.
GrainIntensity(f) ==
    CASE f = "HIPPO_800" -> 45 [] f = "WILLIAM_400" -> 50 [] f = "WILLIAM_H" -> 60 [] OTHER -> 30

GrainOpacity(f) ==
    CASE f = "HIPPO_800" -> 40 [] f = "WILLIAM_400" -> 50 [] f = "WILLIAM_H" -> 60 [] OTHER -> 30

\* 120 + Math.random() * grainIntensity for the tile pixel (x, y): the
\* sequence Math.random() returns is the run's own; seed tells runs apart.
GrainValue(seed, x, y, f) ==
    120 + ((((seed + 1) * 37) * (1 + x + (3 * y))) % (GrainIntensity(f) + 1))

\* The 128 x 128 tile repeated over the canvas, 'overlay' at globalAlpha 0.6
\* times the tile's own alpha grainOpacity / 255.
ApplyGrain(cv, f, seed) ==
    [cv EXCEPT !.px =
        [p \in DOMAIN cv.px |->
            [c \in 1..3 |->
                Composite("overlay", cv.px[p][c],
                          GrainValue(seed, p[1] % 128, p[2] % 128, f),
                          (600 * GrainOpacity(f)) \div 255)]]]

\* STEP 4 (698-714): the canvas at a quarter of its size, drawn back over
\* itself with 'screen' at alpha 0.25.
GlowWidth(cv) == cv.w \div 4

GlowHeight(cv) == cv.h \div 4

\* drawImage throws InvalidStateError for a source canvas with a zero side.
GlowThrows(cv) == GlowWidth(cv) = 0 \/ GlowHeight(cv) = 0

ApplyGlow(cv) ==
    LET gw == GlowWidth(cv)
        gh == GlowHeight(cv)
        glow == Resampled(cv, 0, 0, cv.w, cv.h, gw, gh)
        up   == Resampled(glow, 0, 0, gw, gh, cv.w, cv.h)
    IN  [cv EXCEPT !.px =
            [p \in DOMAIN cv.px |->
                [c \in 1..3 |-> Composite("screen", cv.px[p][c], up.px[p][c], 250)]]]

\* A Uint8ClampedArray store: round to nearest, ties to even.
RoundHalfEven(num, den) ==
    LET q == num \div den
        r == num % den
    IN  IF 2 * r > den THEN q + 1
        ELSE IF 2 * r = den THEN q + (q % 2)
        ELSE q

\* Mutant of GrayLevel: the plain mean of the channels in place of the
\* luminosity weights.
GrayLevelMean(p, contrast) ==
    LET lum == ((p[1] + p[2] + p[3]) * 1000) \div 3
        str == ((lum - 128000) * contrast) + 12800000
    IN  IF str < 0 THEN 0
        ELSE IF str > 25500000 THEN 255
        ELSE RoundHalfEven(str, 100000)

\* applyRobustGrayscaleAndContrast (514-536) on one pixel; contrast in
\* hundredths.  avg = 0.299 R + 0.587 G + 0.114 B, stretched around 128 and
\* clamped unless contrast is 1.0, stored into all three channels.
GrayLevel(p, contrast) ==
    LET lum == (299 * p[1]) + (587 * p[2]) + (114 * p[3])
        str == ((lum - 128000) * contrast) + 12800000
    IN  IF contrast = 100 THEN RoundHalfEven(lum, 1000)
        ELSE IF str < 0 THEN 0
        ELSE IF str > 25500000 THEN 255
        ELSE RoundHalfEven(str, 100000)

GrayPixel(p, contrast) ==
    <<GrayLevel(p, contrast), GrayLevel(p, contrast), GrayLevel(p, contrast)>>

ApplyRobustGrayscaleAndContrast(cv, contrast) ==
    [cv EXCEPT !.px = [p \in DOMAIN cv.px |-> GrayPixel(cv.px[p], contrast)]]

\* Mutant of EnforcedContrast: the WILLIAM_H branch is missing.
EnforcedContrastNoHigh(f) ==
    CASE f = "WILLIAM_400" -> 100 [] OTHER -> 0

\* STEP 5 (720-724): the contrast of the final grayscale pass, 0 for none.
EnforcedContrast(f) ==
    CASE f = "WILLIAM_400" -> 100 [] f = "WILLIAM_H" -> 125 [] OTHER -> 0

\* STEP 6 (730-749): quadrant q cropped at its floored rectangle onto a
\* canvas of its own and, for the monochrome stocks, grayed again.
CropOrigin(q) == [x |-> FloorRect(q).x, y |-> FloorRect(q).y]

ExtractFrame(cv, q, f) ==
    LET r == FloorRect(q)
        o == CropOrigin(q)
        crop == [w |-> r.w, h |-> r.h,
                 px |-> [p \in Coords(r.w, r.h) |-> cv.px[<<o.x + p[1], o.y + p[2]>>]]]
    IN  IF IsBW(f) THEN ApplyRobustGrayscaleAndContrast(crop, 100) ELSE crop

\* getImageData(0, 0, w, h) throws IndexSizeError when w or h is 0.
ExtractThrows(q, f) == IsBW(f) /\ (FloorRect(q).w = 0 \/ FloorRect(q).h = 0)

\* The frames pushed for the quadrants whose canvas got a context, in
\* quadrant order; `quadrant` records where a frame was cropped.
RECURSIVE ExtractFrames(_, _, _, _, _)
ExtractFrames(cv, qs, f, ctxs, i) ==
    IF i > Len(qs) THEN <<>>
    ELSE (IF ctxs[i]
            THEN <<[quadrant |-> i - 1, bitmap |-> ExtractFrame(cv, qs[i], f)]>>
            ELSE <<>>)
         \o ExtractFrames(cv, qs, f, ctxs, i + 1)

\* [0, 1, 2, 3].sort(() => 0.5 - Math.random()).slice(0, 2): two distinct
\* indices.  The two blurs act on disjoint rectangles and so commute; the
\* model lists each pair once, smaller index first.
IndexChoices == {s \in (0..3) \X (0..3) : s[1] < s[2]}

-----------------------------------------------------------------------------
(* processImageNatural (geminiService.ts 538-763).  The onload handler     *)
(* runs to completion: its passes are modelled as consecutive steps, and   *)
(* no other action is enabled between the first and the last of them.     *)

\* The call on the proof sheet stitchBurst resolved with: img.src is set.
ProcessImageNatural ==
    /\ procPc = "idle"
    /\ stitchPromise.state = "resolved"
    /\ \E f \in FilterTypes : filterType' = f
    /\ procPc' = "decoding"
    /\ UNCHANGED <<canvas, indices, passLog, skipped, processedFrames, procPromise>>
    /\ UNCHANGED <<ctxFails>>
    /\ UNCHANGED svars
    /\ UNCHANGED gvars
    /\ UNCHANGED avars

\* img.onerror (760)
ProcOnError ==
    /\ procPc = "decoding"
    /\ procPromise' = Settle(procPromise, "rejected", "error event")
    /\ procPc' = "done"
    /\ UNCHANGED <<filterType, canvas, indices, passLog, skipped, processedFrames>>
    /\ UNCHANGED <<ctxFails>>
    /\ UNCHANGED svars
    /\ UNCHANGED gvars
    /\ UNCHANGED avars

\* img.onload, 544-586: the downscale, the canvas and its context, the base
\* render.
ProcOnLoad ==
    /\ procPc = "decoding"
    /\ \E ctx \in CtxOutcomes(1) :
          LET img == Decoded(stitchPromise.value)
              targetWidth  == TargetWidth(img.w)
              targetHeight == TargetHeight(img.w, img.h)
          IN  /\ ctxFails' = ctxFails + Nulls(ctx)
              /\ IF ~ctx[1]
                   THEN /\ procPromise' = Settle(procPromise, "rejected",
                                                  "Could not get canvas context")
                        /\ procPc' = "done"
                        /\ UNCHANGED <<canvas, passLog>>
                   ELSE /\ canvas' = Resampled(img, 0, 0, img.w, img.h,
                                               targetWidth, targetHeight)
                        /\ passLog' = <<"base">>
                        /\ procPc' = "blur"
                        /\ UNCHANGED procPromise
    /\ UNCHANGED <<filterType, indices, skipped, processedFrames>>
    /\ UNCHANGED svars
    /\ UNCHANGED gvars
    /\ UNCHANGED avars

\* STEP 1.5 (588-595): two quadrants picked at random are blurred.
ProcBlur ==
    /\ procPc = "blur"
    /\ \E idx \in IndexChoices :
       \E ctx \in CtxOutcomes(2) :
          LET qs == Quadrants(canvas.w)
              q1 == qs[idx[1] + 1]
              q2 == qs[idx[2] + 1]
              did == [i \in 1..2 |-> BlurReaches(qs[idx[i] + 1]) /\ ctx[i]]
          IN  /\ \A i \in 1..2 : BlurReaches(qs[idx[i] + 1]) \/ ctx[i]
              /\ indices' = idx
              /\ canvas' = ApplyRegionBlur(ApplyRegionBlur(canvas, q1, ctx[1]), q2, ctx[2])
              /\ passLog' = passLog \o (IF did[1] THEN <<"blur">> ELSE <<>>)
                                    \o (IF did[2] THEN <<"blur">> ELSE <<>>)
              /\ skipped' = IF Nulls(ctx) > 0 THEN skipped \cup {"blur"} ELSE skipped
              /\ ctxFails' = ctxFails + Nulls(ctx)
    /\ procPc' = "look"
    /\ UNCHANGED <<filterType, processedFrames, procPromise>>
    /\ UNCHANGED svars
    /\ UNCHANGED gvars
    /\ UNCHANGED avars

\* STEP 2 (601-650): the filter look, when the copy canvas has a context.
ProcLook ==
    /\ procPc = "look"
    /\ \E ctx \in CtxOutcomes(1) :
       \E filterOk \in {b \in BOOLEAN : ctx[1] \/ b} :
          /\ canvas' = IF ctx[1] THEN ApplyLook(canvas, filterType, filterOk) ELSE canvas
          /\ passLog' = IF ctx[1] THEN Append(passLog, "look") ELSE passLog
          /\ skipped' = IF ctx[1] THEN skipped ELSE skipped \cup {"look"}
          /\ ctxFails' = ctxFails + Nulls(ctx)
    /\ procPc' = "grain"
    /\ UNCHANGED <<filterType, indices, processedFrames, procPromise>>
    /\ UNCHANGED svars
    /\ UNCHANGED gvars
    /\ UNCHANGED avars

\* Mutant of ProcGrain: the grayscale pass runs in the place of the grain.
ProcGrayInPlaceOfGrain ==
    /\ procPc = "grain"
    /\ canvas' = ApplyRobustGrayscaleAndContrast(canvas, 100)
    /\ passLog' = Append(passLog, "gray")
    /\ procPc' = "glow"
    /\ UNCHANGED <<filterType, indices, skipped, processedFrames, procPromise>>
    /\ UNCHANGED <<ctxFails>>
    /\ UNCHANGED svars
    /\ UNCHANGED gvars
    /\ UNCHANGED avars

\* STEP 3 (652-693): the grain, when the tile canvas has a context.
ProcGrain ==
    /\ procPc = "grain"
    /\ \E ctx \in CtxOutcomes(1) :
       \E seed \in {n \in 0..(NumSeeds - 1) : ctx[1] \/ n = 0} :
          /\ canvas' = IF ctx[1] THEN ApplyGrain(canvas, filterType, seed) ELSE canvas
          /\ passLog' = IF ctx[1] THEN Append(passLog, "grain") ELSE passLog
          /\ skipped' = IF ctx[1] THEN skipped ELSE skipped \cup {"grain"}
          /\ ctxFails' = ctxFails + Nulls(ctx)
    /\ procPc' = "glow"
    /\ UNCHANGED <<filterType, indices, processedFrames, procPromise>>
    /\ UNCHANGED svars
    /\ UNCHANGED gvars
    /\ UNCHANGED avars

\* Whether STEP 4 runs for the stock (698).
HasGlow(f) == f # "WILLIAM_H"

\* STEP 4 (695-714): the glow, when the glow canvas has a context; drawing a
\* glow canvas with a zero side throws, and the catch (756) rejects.
ProcGlow ==
    /\ procPc = "glow"
    /\ IF ~HasGlow(filterType)
         THEN /\ procPc' = "gray"
              /\ UNCHANGED <<canvas, passLog, skipped, procPromise, ctxFails>>
         ELSE \E ctx \in CtxOutcomes(1) :
                 /\ ctxFails' = ctxFails + Nulls(ctx)
                 /\ IF ctx[1] /\ GlowThrows(canvas)
                      THEN /\ procPromise' = Settle(procPromise, "rejected", "InvalidStateError")
                           /\ procPc' = "done"
                           /\ UNCHANGED <<canvas, passLog, skipped>>
                      ELSE /\ canvas' = IF ctx[1] THEN ApplyGlow(canvas) ELSE canvas
                           /\ passLog' = IF ctx[1] THEN Append(passLog, "glow") ELSE passLog
                           /\ skipped' = IF ctx[1] THEN skipped ELSE skipped \cup {"glow"}
                           /\ procPc' = "gray"
                           /\ UNCHANGED procPromise
    /\ UNCHANGED <<filterType, indices, processedFrames>>
    /\ UNCHANGED svars
    /\ UNCHANGED gvars
    /\ UNCHANGED avars

\* STEP 5 (716-724): the grayscale pass of the monochrome stocks.
ProcGray ==
    /\ procPc = "gray"
    /\ IF EnforcedContrast(filterType) # 0
         THEN /\ canvas' = ApplyRobustGrayscaleAndContrast(canvas, EnforcedContrast(filterType))
              /\ passLog' = Append(passLog, "gray")
         ELSE UNCHANGED <<canvas, passLog>>
    /\ procPc' = "extract"
    /\ UNCHANGED <<filterType, indices, skipped, processedFrames, procPromise>>
    /\ UNCHANGED <<ctxFails>>
    /\ UNCHANGED svars
    /\ UNCHANGED gvars
    /\ UNCHANGED avars

\* STEP 6 and the resolve (726-755).  The quadrants have one size, so the
\* first frame canvas with a context is where getImageData throws, if it
\* does; no context is asked for after that.
ProcExtract ==
    /\ procPc = "extract"
    /\ \E ctx \in CtxOutcomes(4) :
          LET qs == Quadrants(canvas.w)
              throws == ExtractThrows(qs[1], filterType) /\ \E i \in 1..4 : ctx[i]
              frames == ExtractFrames(canvas, qs, filterType, ctx, 1)
          IN  /\ throws => \A i, j \in 1..4 : (ctx[i] /\ i < j) => ctx[j]
              /\ ctxFails' = ctxFails + Nulls(ctx)
              /\ IF throws
                   THEN /\ procPromise' = Settle(procPromise, "rejected", "IndexSizeError")
                        /\ UNCHANGED <<processedFrames, passLog, skipped>>
                   ELSE /\ processedFrames' = frames
                        /\ passLog' = Append(passLog, "extract")
                        /\ skipped' = IF Nulls(ctx) > 0 THEN skipped \cup {"frame"} ELSE skipped
                        /\ procPromise' =
                              Settle(procPromise, "resolved",
                                     [combinedUrl |-> ToDataURL(canvas, "image/webp", 90),
                                      frames |-> [i \in 1..Len(frames) |->
                                                    ToDataURL(frames[i].bitmap, "image/webp", 85)]])
    /\ procPc' = "done"
    /\ UNCHANGED <<filterType, canvas, indices>>
    /\ UNCHANGED svars
    /\ UNCHANGED gvars
    /\ UNCHANGED avars

-----------------------------------------------------------------------------
(* The application around the pipeline: App.tsx, CameraView (Camera.tsx   *)
(* 471-512), the detail screens (part_000 296-566, part_001, part_003     *)
(* 177-407) and uploadPost (socialService.ts 94-114).                      *)

\* The stocks the camera is switched between in SpecApp: the default and
\* one other.
AppFilters == {"HIPPO_400", "WILLIAM_H"}

\* The detail screens of the repository: part_000 (develops on mount and
\* makes a poster), part_001 (develops on mount, publishes on demand) and
\* part_003 (develops and posts on demand).
Variants == {"poster", "publish", "developAndPost"}

\* PhotoDetail's state on mount; photo 0: no detail screen is mounted.
DetailOff == [photo |-> 0, isProcessing |-> FALSE, isPublishing |-> FALSE, error |-> "none"]

\* CameraView's state on mount, and with it the takeBurst calls in flight:
\* [n, phase, shots, captureFilter, attached], attached telling whether the
\* CameraView that started the call is still mounted.
CameraIdle == [isTakingPhoto |-> FALSE, burstCount |-> 0, error |-> "none", bursts |-> {}]

\* App renders CameraView only while view is CAMERA (App.tsx 278-285): when
\* the view leaves CAMERA the component is unmounted, its state is gone and
\* a takeBurst call in flight goes on without it; the next mount starts
\* from the initial state.
CameraAfter(v) ==
    IF view = "CAMERA" /\ v # "CAMERA"
      THEN [CameraIdle EXCEPT !.bursts = {[b EXCEPT !.attached = FALSE] : b \in camera.bursts}]
      ELSE camera

FilterAfter(v) == IF view = "CAMERA" /\ v # "CAMERA" THEN "HIPPO_400" ELSE activeFilter

\* initializeDB before getAllPhotos has answered (App.tsx 110-133).
DbOpening == [phase |-> "opening", dbPhotos |-> <<>>]

\* No captureFrame call, no pixel and no playback under study.
ShotOff == shot = [stage |-> "off"]

PixelOff == pixel = [stage |-> "off"]

PlayerOff == player = [stage |-> "off"]

UnitsOff == ShotOff /\ PixelOff /\ PlayerOff

\* App's, CameraView's and PhotoDetail's state when the application starts.
AppStart ==
    /\ dbInit = DbOpening
    /\ photos = <<>>
    /\ db = <<>>
    /\ view = "FEED"
    /\ selectedPhotoId = 0
    /\ activeFilter = "HIPPO_400"
    /\ camera = CameraIdle
    /\ captures = {}
    /\ nextPhotoId = 0
    /\ detail = DetailOff
    /\ runs = {}
    /\ nextRun = 0
    /\ feed = {}
    /\ filterAtBurst = <<>>
    /\ deleted = {}

\* The application before it is started.
AppOff == variant = "poster" /\ AppStart

-----------------------------------------------------------------------------
(* Spec: one burst stitched and developed *)

GOff ==
    /\ gStage = "off"
    /\ gImg = [w |-> 0, h |-> 0]
    /\ gResized = [w |-> 0, h |-> 0]
    /\ gGrid = [w |-> 0, h |-> 0, rects |-> <<>>]
    /\ gCanvas = [w |-> 0, h |-> 0]
    /\ gQuads = <<>>

PipelineIdle ==
    /\ images = <<>>
    /\ stitchPc = "idle"
    /\ imgLoad = <<>>
    /\ resizedCanvases = <<>>
    /\ stitchCanvas = NoCanvas
    /\ stitchPromise = Pending
    /\ stitchSettles = 0
    /\ decodes = 0
    /\ canvases = 0
    /\ ctxFails = 0
    /\ procPc = "idle"
    /\ filterType = "HIPPO_400"
    /\ canvas = NoCanvas
    /\ indices = <<>>
    /\ passLog = <<>>
    /\ skipped = {}
    /\ processedFrames = <<>>
    /\ procPromise = Pending

Init == GOff /\ PipelineIdle /\ AppOff /\ UnitsOff

Next ==
    \/ StitchBurst
    \/ \E i \in 1..MaxFrames : ImgOnLoad(i)
    \/ \E i \in 1..MaxFrames : ImgOnError(i)
    \/ StitchThen
    \/ StitchCatch
    \/ ProcessImageNatural
    \/ ProcOnError
    \/ ProcOnLoad
    \/ ProcBlur
    \/ ProcLook
    \/ ProcGrain
    \/ ProcGlow
    \/ ProcGray
    \/ ProcExtract

Spec == Init /\ [][Next]_vars

-----------------------------------------------------------------------------
(* SpecGeom: the data path of one burst of equal frames *)

\* height : width of a raw frame: square (what the camera delivers), tall
\* and wide.
Aspects == {<<1, 1>>, <<2, 1>>, <<1, 2>>}

FrameDims ==
    {[w |-> w, h |-> (w * a[1]) \div a[2]] :
        w \in 1..MaxFrameW, a \in {b \in Aspects : b[2] = 1}}
    \cup {[w |-> 2 * k, h |-> k] : k \in 1..(MaxFrameW \div 2)}

NoDim == [w |-> 0, h |-> 0]

NoGrid == [w |-> 0, h |-> 0, rects |-> <<>>]

GInit ==
    /\ gStage = "frame"
    /\ gImg \in FrameDims
    /\ gResized = NoDim
    /\ gGrid = NoGrid
    /\ gCanvas = NoDim
    /\ gQuads = <<>>
    /\ PipelineIdle
    /\ AppOff
    /\ UnitsOff

\* stitchBurst 419-421: every frame goes through resizeImage(img, 800).
GResize ==
    /\ gStage = "frame"
    /\ gResized' = ResizeImage(gImg, TARGET_SIZE)
    /\ gStage' = "resized"
    /\ UNCHANGED <<gImg, gGrid, gCanvas, gQuads>>
    /\ UNCHANGED <<ctxFails>>
    /\ UNCHANGED svars
    /\ UNCHANGED pvars
    /\ UNCHANGED avars

\* stitchBurst 430-464: the tile size is the first canvas's width.
GStitch ==
    /\ gStage = "resized"
    /\ LET size == gResized.w
       IN  gGrid' = [w |-> GridWidth(size), h |-> GridHeight(size),
                     rects |-> [i \in 1..BURST_SIZE |-> DrawRect(i - 1, size)]]
    /\ gStage' = "stitched"
    /\ UNCHANGED <<gImg, gResized, gCanvas, gQuads>>
    /\ UNCHANGED <<ctxFails>>
    /\ UNCHANGED svars
    /\ UNCHANGED pvars
    /\ UNCHANGED avars

\* processImageNatural 544-569 on the proof sheet.
GDownscale ==
    /\ gStage = "stitched"
    /\ gCanvas' = [w |-> TargetWidth(gGrid.w), h |-> TargetHeight(gGrid.w, gGrid.h)]
    /\ gStage' = "canvas"
    /\ UNCHANGED <<gImg, gResized, gGrid, gQuads>>
    /\ UNCHANGED <<ctxFails>>
    /\ UNCHANGED svars
    /\ UNCHANGED pvars
    /\ UNCHANGED avars

\* processImageNatural 577-586 and the floors of 731-734.
GGeometry ==
    /\ gStage = "canvas"
    /\ gQuads' = [i \in 1..4 |-> FloorRect(Quadrants(gCanvas.w)[i])]
    /\ gStage' = "quadrants"
    /\ UNCHANGED <<gImg, gResized, gGrid, gCanvas>>
    /\ UNCHANGED <<ctxFails>>
    /\ UNCHANGED svars
    /\ UNCHANGED pvars
    /\ UNCHANGED avars

GNext == GResize \/ GStitch \/ GDownscale \/ GGeometry

SpecGeom == GInit /\ [][GNext]_vars

-----------------------------------------------------------------------------
(* SpecApp: capture -> develop -> publish.  As Spec follows one call of    *)
(* stitchBurst, SpecApp follows one burst of the camera, from the shutter  *)
(* to the feed; its photo has id 1.                                        *)

kvars == <<gvars, svars, pvars, ctxFails, uvars>>

\* f with key k added or replaced (a Map / store put).
Put(f, k, v) == [x \in (DOMAIN f) \cup {k} |-> IF x = k THEN v ELSE f[x]]

\* f without key k.
Drop(f, k) == [x \in (DOMAIN f) \ {k} |-> f[x]]

\* Mutant of NewPhoto: the filter is read when the photo is built.
NewPhotoLateFilter(id, captureFilter, active) ==
    [id |-> id, originalUrl |-> id, frames |-> id, timestamp |-> id,
     status |-> "pending", caption |-> "", processedUrl |-> 0, posterUrl |-> 0,
     processedFrames |-> 0, locationName |-> "LOC", coordinates |-> "COORD",
     filter |-> active]

\* The Photo takeBurst builds (Camera.tsx 493-502).  The proof sheet, the
\* raw frames and the timestamp are named by the photo's number; 0 stands
\* for an absent optional field.
NewPhoto(id, captureFilter, active) ==
    [id |-> id, originalUrl |-> id, frames |-> id, timestamp |-> id,
     status |-> "pending", caption |-> "", processedUrl |-> 0, posterUrl |-> 0,
     processedFrames |-> 0, locationName |-> "LOC", coordinates |-> "COORD",
     filter |-> captureFilter]

\* The auto-develop effect of part_000 320-325 and part_001 23-27.
AutoDevelops(photo) ==
    /\ variant \in {"poster", "publish"}
    /\ photo.status = "pending"
    /\ photo.processedUrl = 0

\* A develop call: developPhoto's closure holds the photo prop it was
\* started with; `attached` tells whether the component that started it is
\* still mounted.
DevelopRun(n, photo) ==
    [n |-> n, kind |-> "develop", phase |-> "processing", snap |-> photo,
     attached |-> TRUE, filterArg |-> photo.filter, result |-> 0]

Detached(rs) == {[r EXCEPT !.attached = FALSE] : r \in rs}

\* What React makes of the detail screen once App's state is v, sel, ps:
\* unmount, mount (fresh state, the effect runs), a change of photo.id (the
\* state is kept, the effect runs again) or nothing.
Render(v, sel, ps, d, rs, nr) ==
    LET shown == IF v = "PHOTO_DETAIL" /\ sel \in DOMAIN ps THEN sel ELSE 0
    IN  IF shown = 0
          THEN [ok |-> TRUE, detail |-> DetailOff, runs |-> Detached(rs), nextRun |-> nr]
        ELSE IF shown = d.photo
          THEN [ok |-> TRUE, detail |-> d, runs |-> rs, nextRun |-> nr]
        ELSE LET base   == IF d.photo = 0 THEN DetailOff ELSE d
                 starts == AutoDevelops(ps[shown])
             IN  [ok |-> ~starts \/ nr < MaxRuns,
                  detail |-> [base EXCEPT !.photo = shown,
                                          !.isProcessing = starts \/ @],
                  runs |-> IF starts THEN rs \cup {DevelopRun(nr + 1, ps[shown])} ELSE rs,
                  nextRun |-> IF starts THEN nr + 1 ELSE nr]

\* App's state after a handler, and the detail screen rendered from it.
Apply(v, sel, ps, d, rs) ==
    LET r == Render(v, sel, ps, d, rs, nextRun)
    IN  /\ r.ok
        /\ view' = v
        /\ selectedPhotoId' = sel
        /\ photos' = ps
        /\ detail' = r.detail
        /\ runs' = r.runs
        /\ nextRun' = r.nextRun

\* handleUpdatePhoto's setPhotos (App.tsx 156): the record with that id is
\* replaced, a photo not in the list is not added.
Updated(ps, photo) == IF photo.id \in DOMAIN ps THEN Put(ps, photo.id, photo) ELSE ps

\* The store is an external collaborator; it applies reads and writes in
\* the order they were issued.  getAllPhotos is issued (App.tsx 133): its
\* answer is the store's content at that moment.
GetAllPhotos ==
    /\ dbInit.phase = "opening"
    /\ dbInit' = [phase |-> "reading", dbPhotos |-> db]
    /\ UNCHANGED <<variant, photos, db, view, selectedPhotoId, activeFilter, camera, captures,
                   nextPhotoId, detail, runs, nextRun, feed, filterAtBurst, deleted>>
    /\ UNCHANGED kvars

\* getAllPhotos answers and initializeDB goes on (App.tsx 133-135):
\* setPhotos(dbPhotos).
InitLoaded ==
    /\ dbInit.phase = "reading"
    /\ dbInit' = [phase |-> "ready", dbPhotos |-> <<>>]
    /\ Apply(view, selectedPhotoId, dbInit.dbPhotos, detail, runs)
    /\ UNCHANGED <<variant, db, activeFilter, camera, captures, nextPhotoId, feed, filterAtBurst, deleted>>
    /\ UNCHANGED kvars

\* Navigation and the back buttons (App.tsx 205-214, 284-299).  The profile
\* screen, from which the gallery is also opened, shows no photo state and
\* is folded into FEED.
ChangeView(v) ==
    /\ \/ view \in {"FEED", "CAMERA"} /\ v \in {"FEED", "CAMERA", "LOCAL_GALLERY"}
       \/ view = "LOCAL_GALLERY" /\ v = "FEED"
       \/ view = "PHOTO_DETAIL" /\ v = "LOCAL_GALLERY"
    /\ v # view
    /\ Apply(v, selectedPhotoId, photos, detail, runs)
    /\ camera' = CameraAfter(v)
    /\ activeFilter' = FilterAfter(v)
    /\ UNCHANGED <<variant, dbInit, db, captures, nextPhotoId, feed, filterAtBurst, deleted>>
    /\ UNCHANGED kvars

\* The filter buttons of CameraView (Camera.tsx 573).
SetActiveFilter(f) ==
    /\ view = "CAMERA"
    /\ f # activeFilter
    /\ activeFilter' = f
    /\ UNCHANGED <<variant, dbInit, photos, db, view, selectedPhotoId, camera, captures,
                   nextPhotoId, detail, runs, nextRun, feed, filterAtBurst, deleted>>
    /\ UNCHANGED kvars

\* takeBurst's test (Camera.tsx 472).
Busy(c) == c.isTakingPhoto

\* The takeBurst calls a behaviour is followed through: SpecApp follows one
\* call at a time until a photo is made, SpecCam (variant "camera": no
\* detail screen) up to MaxBursts calls in flight and as many photos.
CanStartBurst ==
    IF variant = "camera"
      THEN Cardinality(camera.bursts) < MaxBursts /\ nextPhotoId < MaxBursts
      ELSE camera.bursts = {} /\ nextPhotoId = 0

\* takeBurst up to its first await (Camera.tsx 471-483).
TakeBurst ==
    /\ view = "CAMERA"
    /\ ~Busy(camera)
    /\ CanStartBurst
    /\ LET n == CHOOSE k \in 1..MaxBursts : \A b \in camera.bursts : b.n # k
       IN  camera' = [camera EXCEPT !.isTakingPhoto = TRUE, !.burstCount = 1,
                                    !.bursts = @ \cup {[n |-> n, phase |-> "capturing",
                                                        shots |-> 0,
                                                        captureFilter |-> activeFilter,
                                                        attached |-> TRUE]}]
    /\ UNCHANGED <<variant, dbInit, photos, db, view, selectedPhotoId, activeFilter, captures,
                   nextPhotoId, detail, runs, nextRun, feed, filterAtBurst, deleted>>
    /\ UNCHANGED kvars

\* takeBurst called while isTakingPhoto is set: it returns at once (472).
TakeBurstBusy ==
    /\ view = "CAMERA"
    /\ Busy(camera)
    /\ UNCHANGED <<variant, dbInit, photos, db, view, selectedPhotoId, activeFilter, camera,
                   captures, nextPhotoId, detail, runs, nextRun, feed, filterAtBurst, deleted>>
    /\ UNCHANGED kvars

\* Burst b is over: the finally of 508-511 reaches the component that
\* started it, if that is still mounted.
BurstOver(b, err) ==
    IF b.attached
      THEN [camera EXCEPT !.isTakingPhoto = FALSE, !.burstCount = 0, !.error = err,
                          !.bursts = @ \ {b}]
      ELSE [camera EXCEPT !.bursts = @ \ {b}]

\* The capture loop (481-489), its four turns taken as one step: shots is
\* the number of frames captureFrame gave.  It gives null while a ref or
\* the 2D context is missing (446, 460), and the refs are missing once the
\* component is unmounted.  The burst is then stitched, or dropped if a
\* frame is missing (491).
CaptureFrames(b, shots) ==
    /\ b \in camera.bursts
    /\ b.phase = "capturing"
    /\ ~b.attached => shots < BURST_SIZE
    /\ camera' = IF shots = BURST_SIZE
                   THEN [camera EXCEPT !.burstCount = BURST_SIZE,
                                       !.bursts = (@ \ {b}) \cup
                                                  {[b EXCEPT !.phase = "stitching",
                                                             !.shots = shots]}]
                   ELSE BurstOver(b, camera.error)
    /\ UNCHANGED <<variant, dbInit, photos, db, view, selectedPhotoId, activeFilter, captures,
                   nextPhotoId, detail, runs, nextRun, feed, filterAtBurst, deleted>>
    /\ UNCHANGED kvars

\* stitchBurst rejects (505-507).
StitchFailed(b) ==
    /\ b \in camera.bursts
    /\ b.phase = "stitching"
    /\ camera' = BurstOver(b, "ERR")
    /\ UNCHANGED <<variant, dbInit, photos, db, view, selectedPhotoId, activeFilter, captures,
                   nextPhotoId, detail, runs, nextRun, feed, filterAtBurst, deleted>>
    /\ UNCHANGED kvars

\* stitchBurst resolves (492-503): the photo is built and handed to
\* handleCapture, which puts it in the list and issues savePhoto (App.tsx
\* 144-147); saved tells whether the store takes the write.
StitchDone(b, saved) ==
    /\ b \in camera.bursts
    /\ b.phase = "stitching"
    /\ LET id == nextPhotoId + 1
           photo == NewPhoto(id, b.captureFilter, activeFilter)
       IN  /\ nextPhotoId' = id
           /\ filterAtBurst' = Put(filterAtBurst, id, b.captureFilter)
           /\ captures' = captures \cup {photo}
           /\ db' = IF saved THEN Put(db, id, photo) ELSE db
           /\ Apply(view, selectedPhotoId, Put(photos, id, photo), detail, runs)
    /\ camera' = BurstOver(b, camera.error)
    /\ UNCHANGED <<variant, dbInit, activeFilter, feed, deleted>>
    /\ UNCHANGED kvars

\* savePhoto settles, either way, and handleCapture goes on (App.tsx
\* 147-153): the photo is selected and shown.
CaptureSaved(photo) ==
    /\ photo \in captures
    /\ captures' = captures \ {photo}
    /\ Apply("PHOTO_DETAIL", photo.id, photos, detail, runs)
    /\ camera' = CameraAfter("PHOTO_DETAIL")
    /\ activeFilter' = FilterAfter("PHOTO_DETAIL")
    /\ UNCHANGED <<variant, dbInit, db, nextPhotoId, feed, filterAtBurst, deleted>>
    /\ UNCHANGED kvars

\* handleSelectPhoto (App.tsx 177-180), from the gallery.
HandleSelectPhoto(id) ==
    /\ view = "LOCAL_GALLERY"
    /\ id \in DOMAIN photos
    /\ Apply("PHOTO_DETAIL", id, photos, detail, runs)
    /\ UNCHANGED <<variant, dbInit, db, activeFilter, camera, captures, nextPhotoId, feed, filterAtBurst, deleted>>
    /\ UNCHANGED kvars

\* handleDeletePhoto (App.tsx 164-175), from the gallery or from the detail
\* screen of the photo (part_000 shows its delete button for a completed
\* photo only, 516-547).
HandleDeletePhoto(id) ==
    /\ id \in DOMAIN photos
    /\ \/ view = "LOCAL_GALLERY"
       \/ /\ view = "PHOTO_DETAIL"
          /\ detail.photo = id
          /\ variant = "poster" => photos[id].status = "completed"
    /\ db' = IF id \in DOMAIN db THEN Drop(db, id) ELSE db
    /\ IF selectedPhotoId = id
         THEN Apply("LOCAL_GALLERY", 0, Drop(photos, id), detail, runs)
         ELSE Apply(view, selectedPhotoId, Drop(photos, id), detail, runs)
    /\ deleted' = deleted \cup {id}
    /\ UNCHANGED <<variant, dbInit, activeFilter, camera, captures, nextPhotoId, feed, filterAtBurst>>
    /\ UNCHANGED kvars

\* handleUpdatePhoto (App.tsx 155-162) with the detail screen's state d and
\* the calls in flight rs as the caller leaves them.
HandleUpdatePhoto(updatedPhoto, d, rs) ==
    /\ db' = Put(db, updatedPhoto.id, updatedPhoto)
    /\ Apply(view, selectedPhotoId, Updated(photos, updatedPhoto), d, rs)

\* A state update from a call in flight reaches the component only while
\* the component that started the call is mounted.
SetState(r, d) == IF r.attached /\ detail.photo # 0 THEN d ELSE detail

\* Mutant of Developed: the record is built anew, around the developed
\* sheet, and the stock is lost.
DevelopedAnew(r) ==
    [r.snap EXCEPT !.originalUrl = r.n + 1, !.filter = "HIPPO_400", !.processedUrl = r.n,
                   !.processedFrames = r.n, !.status = "completed"]

\* Mutant of Developed: the poster is the one of the photo's first run.
DevelopedFirstPoster(r) ==
    [r.snap EXCEPT !.processedUrl = r.n, !.posterUrl = 1, !.processedFrames = r.n,
                   !.status = "completed"]

\* The record developPhoto hands to onUpdatePhoto: part_000 369-375 (with
\* the poster), part_001 41-46 (without), part_003 232-238 (with the
\* caption typed in).
Developed(r) ==
    CASE r.kind = "develop" /\ variant = "poster" ->
            [r.snap EXCEPT !.processedUrl = r.n, !.posterUrl = r.n,
                           !.processedFrames = r.n, !.status = "completed"]
      [] r.kind = "develop" /\ variant # "poster" ->
            [r.snap EXCEPT !.processedUrl = r.n, !.processedFrames = r.n,
                           !.status = "completed"]
      [] OTHER ->
            [r.snap EXCEPT !.caption = "caption", !.processedUrl = r.n,
                           !.processedFrames = r.n, !.status = "completed"]

\* processImageNatural resolves.  part_000 goes on to createPoster (358-367),
\* part_001 updates the photo and is done, part_003 updates the photo and
\* goes on to uploadPost (239-242).
ProcessResolved(r) ==
    /\ r \in runs
    /\ r.phase = "processing"
    /\ CASE r.kind = "develop" /\ variant = "poster" ->
               /\ runs' = (runs \ {r}) \cup {[r EXCEPT !.phase = "poster", !.result = r.n]}
               /\ UNCHANGED <<photos, db, view, selectedPhotoId, detail, nextRun>>
         [] r.kind = "develop" /\ variant # "poster" ->
               HandleUpdatePhoto(Developed(r),
                                 SetState(r, [detail EXCEPT !.isProcessing = FALSE]),
                                 runs \ {r})
         [] OTHER ->
               HandleUpdatePhoto(Developed(r), detail,
                                 (runs \ {r}) \cup {[r EXCEPT !.phase = "upload",
                                                              !.snap = Developed(r)]})
    /\ UNCHANGED <<variant, dbInit, activeFilter, camera, captures, nextPhotoId, feed, filterAtBurst, deleted>>
    /\ UNCHANGED kvars

\* The error a failed call leaves on the screen.
ErrorOf(r) ==
    CASE r.kind = "develop" -> "Development Failed"
      [] r.kind = "upload" -> "Upload Failed"
      [] OTHER -> "ERR_PROC_FAIL"

\* Mutant of Failed: the catch keeps what the call had made so far.
FailedKeepingSheet(r) ==
    /\ db' = Put(db, r.snap.id, [r.snap EXCEPT !.processedUrl = r.n])
    /\ Apply(view, selectedPhotoId,
             IF r.snap.id \in DOMAIN photos
               THEN Put(photos, r.snap.id, [r.snap EXCEPT !.processedUrl = r.n])
               ELSE photos,
             IF r.attached /\ detail.photo # 0
               THEN [detail EXCEPT !.error = "Development Failed", !.isProcessing = FALSE]
               ELSE detail,
             runs \ {r})
    /\ UNCHANGED <<variant, dbInit, activeFilter, camera, captures, nextPhotoId, feed, filterAtBurst, deleted>>
    /\ UNCHANGED kvars

\* The catch and finally blocks of the three handlers (part_000 377-382,
\* part_001 48-53 and 62-65, part_003 247-251): the error is shown and the
\* busy flag is cleared; the photo is not touched.
Failed(r) ==
    /\ Apply(view, selectedPhotoId, photos,
             SetState(r, [detail EXCEPT !.error = ErrorOf(r),
                                        !.isProcessing = IF r.kind = "upload" THEN @ ELSE FALSE,
                                        !.isPublishing = IF r.kind = "upload" THEN FALSE ELSE @]),
             runs \ {r})
    /\ UNCHANGED <<variant, dbInit, db, activeFilter, camera, captures, nextPhotoId, feed, filterAtBurst, deleted>>
    /\ UNCHANGED kvars

\* processImageNatural rejects.
ProcessRejected(r) ==
    /\ r \in runs
    /\ r.phase = "processing"
    /\ Failed(r)

\* createPoster resolves (part_000 369-376).
PosterResolved(r) ==
    /\ r \in runs
    /\ r.phase = "poster"
    /\ HandleUpdatePhoto(Developed(r), SetState(r, [detail EXCEPT !.isProcessing = FALSE]),
                         runs \ {r})
    /\ UNCHANGED <<variant, dbInit, activeFilter, camera, captures, nextPhotoId, feed, filterAtBurst, deleted>>
    /\ UNCHANGED kvars

\* createPoster rejects.
PosterRejected(r) ==
    /\ r \in runs
    /\ r.phase = "poster"
    /\ Failed(r)

\* handlePublish up to its await (part_001 56-61); the button is disabled
\* while isProcessing or isPublishing.
HandlePublish ==
    /\ variant = "publish"
    /\ detail.photo # 0
    /\ ~detail.isProcessing /\ ~detail.isPublishing
    /\ nextRun < MaxRuns
    /\ LET updatedPhoto == [photos[detail.photo] EXCEPT !.caption = "caption"]
       IN  /\ db' = Put(db, updatedPhoto.id, updatedPhoto)
           /\ photos' = Updated(photos, updatedPhoto)
           /\ runs' = runs \cup {[n |-> nextRun + 1, kind |-> "upload", phase |-> "upload",
                                  snap |-> updatedPhoto, attached |-> TRUE,
                                  filterArg |-> "none", result |-> 0]}
    /\ nextRun' = nextRun + 1
    /\ detail' = [detail EXCEPT !.isPublishing = TRUE]
    /\ UNCHANGED <<view, selectedPhotoId>>
    /\ UNCHANGED <<variant, dbInit, activeFilter, camera, captures, nextPhotoId, feed, filterAtBurst, deleted>>
    /\ UNCHANGED kvars

\* handleDevelopAndPost up to processImageNatural (part_003 223-230), which
\* this screen calls without a filter; the button is there for an
\* undeveloped photo and disabled while isProcessing.
HandleDevelopAndPost ==
    /\ variant = "developAndPost"
    /\ detail.photo # 0
    /\ photos[detail.photo].processedUrl = 0
    /\ ~detail.isProcessing
    /\ nextRun < MaxRuns
    /\ runs' = runs \cup {[n |-> nextRun + 1, kind |-> "developAndPost",
                           phase |-> "processing", snap |-> photos[detail.photo],
                           attached |-> TRUE, filterArg |-> "none", result |-> 0]}
    /\ nextRun' = nextRun + 1
    /\ detail' = [detail EXCEPT !.isProcessing = TRUE, !.error = "none"]
    /\ UNCHANGED <<photos, db, view, selectedPhotoId>>
    /\ UNCHANGED <<variant, dbInit, activeFilter, camera, captures, nextPhotoId, feed, filterAtBurst, deleted>>
    /\ UNCHANGED kvars

\* Mutant of CanUpload: no test.
CanUploadAny(photo) == TRUE

\* uploadPost's test (socialService.ts 97).
CanUpload(photo) == photo.processedUrl # 0

\* The Post uploadPost builds (socialService.ts 99-111).
PostOf(r) == [photo |-> r.snap.id, mainImageUrl |-> r.snap.processedUrl, n |-> r.n]

\* uploadPost settles (socialService.ts 94-114).  It throws for a photo
\* with no processedUrl; otherwise the post is put on the feed and the
\* caller's onPostComplete (App.tsx 182-185) leaves the detail screen.
UploadDone(r) ==
    /\ r \in runs
    /\ r.phase = "upload"
    /\ IF CanUpload(r.snap)
         THEN /\ feed' = feed \cup {PostOf(r)}
              /\ Apply("FEED", 0, photos, detail, runs \ {r})
              /\ camera' = CameraAfter("FEED")
              /\ activeFilter' = FilterAfter("FEED")
              /\ UNCHANGED <<variant, dbInit, db, captures, nextPhotoId, filterAtBurst, deleted>>
              /\ UNCHANGED kvars
         ELSE Failed(r)

AInit ==
    /\ variant \in Variants
    /\ AppStart
    /\ GOff
    /\ PipelineIdle
    /\ UnitsOff

ANext ==
    \/ GetAllPhotos
    \/ InitLoaded
    \/ \E v \in {"FEED", "CAMERA", "LOCAL_GALLERY"} : ChangeView(v)
    \/ \E f \in AppFilters : SetActiveFilter(f)
    \/ TakeBurst
    \/ TakeBurstBusy
    \/ \E b \in camera.bursts : \E shots \in (BURST_SIZE - 1)..BURST_SIZE : CaptureFrames(b, shots)
    \/ \E b \in camera.bursts : StitchFailed(b)
    \/ \E b \in camera.bursts : \E saved \in BOOLEAN : StitchDone(b, saved)
    \/ \E photo \in captures : CaptureSaved(photo)
    \/ \E id \in DOMAIN photos : HandleSelectPhoto(id)
    \/ \E id \in DOMAIN photos : HandleDeletePhoto(id)
    \/ \E r \in runs : ProcessResolved(r)
    \/ \E r \in runs : ProcessRejected(r)
    \/ \E r \in runs : PosterResolved(r)
    \/ \E r \in runs : PosterRejected(r)
    \/ HandlePublish
    \/ HandleDevelopAndPost
    \/ \E r \in runs : UploadDone(r)

SpecApp == AInit /\ [][ANext]_vars

-----------------------------------------------------------------------------
(* SpecCam: the camera screen alone (Camera.tsx 471-512, App.tsx 144-153   *)
(* and 278-285): shutter releases, the filter buttons, leaving the screen  *)
(* and coming back, with the takeBurst calls that are then in flight.      *)

CamInit ==
    /\ variant = "camera"
    /\ AppStart
    /\ GOff
    /\ PipelineIdle
    /\ UnitsOff

CamNext ==
    \/ \E v \in {"FEED", "CAMERA", "LOCAL_GALLERY"} : ChangeView(v)
    \/ \E f \in AppFilters : SetActiveFilter(f)
    \/ TakeBurst
    \/ TakeBurstBusy
    \/ \E b \in camera.bursts : \E shots \in (BURST_SIZE - 1)..BURST_SIZE : CaptureFrames(b, shots)
    \/ \E b \in camera.bursts : StitchFailed(b)
    \/ \E b \in camera.bursts : \E saved \in BOOLEAN : StitchDone(b, saved)
    \/ \E photo \in captures : CaptureSaved(photo)

SpecCam == CamInit /\ [][CamNext]_vars

-----------------------------------------------------------------------------
(* SpecShot: one call of captureFrame (Camera.tsx 445-469) *)

\* Edges of the video frames SpecShot draws from, around the capture cap.
VideoEdges == {1, 2, 3, 480, MAX_CAPTURE_SIZE - 1, MAX_CAPTURE_SIZE, MAX_CAPTURE_SIZE + 1,
               MaxVideoEdge}

\* video.videoWidth and video.videoHeight: both 0 while the element has no
\* frame (no stream yet, or none at all), else the size of the stream.
VideoDims == {[w |-> 0, h |-> 0]} \cup {[w |-> w, h |-> h] : w, h \in VideoEdges}

\* captureFrame 450-457: the source square and the canvas.  startX and
\* startY are halves of integers and are kept doubled.
CropOf(video) ==
    LET minDim == Min(video.w, video.h)
    IN  [minDim |-> minDim,
         startX2 |-> video.w - minDim,
         startY2 |-> video.h - minDim,
         finalDim |-> Min(minDim, MAX_CAPTURE_SIZE)]

\* canvas.toDataURL('image/jpeg', 0.85) (468): a JPEG of the canvas's size,
\* or the string "data:," for a canvas without pixels.
CanvasToJpeg(w, h) ==
    IF w = 0 \/ h = 0
      THEN [kind |-> "data:,", w |-> 0, h |-> 0]
      ELSE [kind |-> "jpeg", w |-> w, h |-> h]

ShotInit ==
    /\ shot \in {[stage |-> "called", video |-> v, facingMode |-> m,
                  canvas |-> [w |-> 300, h |-> 150], crop |-> CropOf(v),
                  frame |-> [kind |-> "none", w |-> 0, h |-> 0]] :
                    v \in VideoDims, m \in {"user", "environment"}}
    /\ PixelOff
    /\ PlayerOff
    /\ GOff
    /\ PipelineIdle
    /\ AppOff

\* 445-457: the refs are there, the canvas takes the size finalDim.
ShotSizeCanvas ==
    /\ shot.stage = "called"
    /\ shot' = [shot EXCEPT !.stage = "sized",
                            !.canvas = [w |-> shot.crop.finalDim, h |-> shot.crop.finalDim]]
    /\ UNCHANGED <<gvars, svars, pvars, ctxFails, appvars, pixel, player>>

\* 459-460: getContext gives no context and captureFrame returns null.
ShotNoContext ==
    /\ shot.stage = "sized"
    /\ shot' = [shot EXCEPT !.stage = "returned", !.frame = [kind |-> "null", w |-> 0, h |-> 0]]
    /\ UNCHANGED <<gvars, svars, pvars, ctxFails, appvars, pixel, player>>

\* 462-468: the source square is drawn (mirrored for the front camera) and
\* the canvas is encoded.
ShotDraw ==
    /\ shot.stage = "sized"
    /\ shot' = [shot EXCEPT !.stage = "returned",
                            !.frame = CanvasToJpeg(shot.canvas.w, shot.canvas.h)]
    /\ UNCHANGED <<gvars, svars, pvars, ctxFails, appvars, pixel, player>>

ShotNext == ShotSizeCanvas \/ ShotNoContext \/ ShotDraw

SpecShot == ShotInit /\ [][ShotNext]_vars

-----------------------------------------------------------------------------
(* SpecGray: applyRobustGrayscaleAndContrast (geminiService.ts 514-536) on *)
(* one RGBA pixel of the image data, for the two stocks that call it       *)
(* (716-724).                                                              *)

\* Channel values SpecGray draws from: the ends of the byte range, the
\* neighbourhood of the midpoint 128 and values between.
Levels == {0, 1, 2, 3, 30, 31, 32, 64, 100, 127, 128, 129, 200, 253, 254, 255}

GrayInit ==
    /\ pixel \in {[stage |-> "read", filterType |-> f, data |-> <<r, g, b, a>>,
                   written |-> <<r, g, b, a>>] :
                     f \in {"WILLIAM_400", "WILLIAM_H"}, r \in Levels, g \in Levels,
                     b \in Levels, a \in {0, 128, 255}}
    /\ ShotOff
    /\ PlayerOff
    /\ GOff
    /\ PipelineIdle
    /\ AppOff

\* One turn of the loop (519-534): data[i], data[i+1] and data[i+2] are
\* written, data[i+3] is not.
GrayTurn ==
    /\ pixel.stage = "read"
    /\ LET out == GrayPixel(<<pixel.data[1], pixel.data[2], pixel.data[3]>>,
                            EnforcedContrast(pixel.filterType))
       IN  pixel' = [pixel EXCEPT !.stage = "written",
                                  !.written = <<out[1], out[2], out[3], pixel.data[4]>>]
    /\ UNCHANGED <<gvars, svars, pvars, ctxFails, appvars, shot, player>>

GrayNext == GrayTurn

SpecGray == GrayInit /\ [][GrayNext]_vars

\* ---------------------------------------------------------------------
\* The playback loop of a view: PhotoDetail's GIF mode (part_000 316-340),
\* PhotoDetail's loop playback (part_002 21-45) and FeedPoster
\* (src/components/Feed.tsx 45-64).  The three effects are the same code
\* up to names: isGifMode is isPlaying, animationIntervalRef is
\* intervalRef.  player.n is the length of the frame list the view is
\* given, 0 when it has none; player.timers are the interval timers that
\* are set, each with the length its callback closed over; player.ref is
\* intervalRef.current, 0 for null; player.last names the last step.

Hosts == {"gif", "loop", "feed"}

\* Mutant of Cleanup: an effect that returns no cleanup.
KeepTimers(p) == p.timers

\* The effect's cleanup (part_000 337-339): the timer the ref names is
\* cleared.
Cleanup(p) == {t \in p.timers : t.id # p.ref}

\* The effect's body (part_000 329-336) after the cleanup of its last run.
Effect(p, timers) ==
    IF p.isPlaying /\ p.n > 0
      THEN [p EXCEPT !.timers = timers \cup {[id |-> p.made + 1, n |-> p.n]},
                     !.ref = p.made + 1,
                     !.made = p.made + 1]
      ELSE [p EXCEPT !.timers = {t \in timers : t.id # p.ref},
                     !.currentFrameIndex = 0]

PlayInit ==
    /\ PlayerOff
    /\ ShotOff
    /\ PixelOff
    /\ GOff
    /\ PipelineIdle
    /\ AppOff

\* The view is mounted with a list of n frames: useState (part_000
\* 316-318) and the first run of the effect.
PlayMount(host, n) ==
    /\ player.stage = "off"
    /\ player' = Effect([stage |-> "mounted", host |-> host, n |-> n,
                         isPlaying |-> FALSE, currentFrameIndex |-> 0,
                         ref |-> 0, timers |-> {}, made |-> 0, last |-> "mount"],
                        {})
    /\ UNCHANGED <<gvars, svars, pvars, ctxFails, appvars, shot, pixel>>

\* toggleViewMode (part_000 422-426), togglePlayback (part_002 120-125)
\* and the frame's onClick (Feed.tsx 206); PhotoDetail lets it through
\* only for a developed photo.  The effect runs again: its cleanup, then
\* its body.
PlayToggle ==
    /\ player.stage = "mounted"
    /\ player.host = "feed" \/ player.n > 0
    /\ ~player.isPlaying => player.made < MaxTimers
    /\ LET p == [player EXCEPT !.isPlaying = ~@, !.last = "toggle"]
       IN  player' = Effect(p, Cleanup(p))
    /\ UNCHANGED <<gvars, svars, pvars, ctxFails, appvars, shot, pixel>>

\* The view is given its frame list anew (the parent's photo or post is
\* replaced by an update): the frames a photo without any gets from
\* develop, or the same frames in a new array.  A dependency of the effect
\* has changed, so it runs again.
PlayFrames(n) ==
    /\ player.stage = "mounted"
    /\ player.n # 0 => n = player.n
    /\ player.isPlaying => player.made < MaxTimers
    /\ LET p == [player EXCEPT !.n = n, !.last = "frames"]
       IN  player' = Effect(p, Cleanup(p))
    /\ UNCHANGED <<gvars, svars, pvars, ctxFails, appvars, shot, pixel>>

\* The interval timers that are set.
Timers == IF player.stage = "off" THEN {} ELSE player.timers

\* A timer fires (part_000 330-332); the setter of an unmounted view does
\* nothing.
PlayTick(t) ==
    /\ t \in Timers
    /\ player' = IF player.stage = "mounted"
                   THEN [player EXCEPT !.currentFrameIndex = (@ + 1) % t.n,
                                       !.last = "tick"]
                   ELSE [player EXCEPT !.last = "tick"]
    /\ UNCHANGED <<gvars, svars, pvars, ctxFails, appvars, shot, pixel>>

\* The view is unmounted: the cleanup of the effect's last run.
PlayUnmount ==
    /\ player.stage = "mounted"
    /\ player' = [player EXCEPT !.stage = "unmounted", !.timers = Cleanup(player),
                                !.last = "unmount"]
    /\ UNCHANGED <<gvars, svars, pvars, ctxFails, appvars, shot, pixel>>

PlayNext ==
    \/ \E host \in Hosts : \E n \in 0..BURST_SIZE : PlayMount(host, n)
    \/ PlayToggle
    \/ \E n \in 1..BURST_SIZE : PlayFrames(n)
    \/ \E t \in Timers : PlayTick(t)
    \/ PlayUnmount

SpecPlay == PlayInit /\ [][PlayNext]_vars

-----------------------------------------------------------------------------
(* Claims about the geometry, checked under SpecGeom *)

Abs(n) == IF n < 0 THEN -n ELSE n

\* Two rectangles share no pixel.
Disjoint(a, b) ==
    \/ a.x + a.w <= b.x
    \/ b.x + b.w <= a.x
    \/ a.y + a.h <= b.y
    \/ b.y + b.h <= a.y

\* The free pixels between two quadrants that are neighbours in a row
\* (1 and 2, 3 and 4) or in a column (1 and 3, 2 and 4).
Spacings ==
    {gQuads[2].x - (gQuads[1].x + gQuads[1].w),
     gQuads[4].x - (gQuads[3].x + gQuads[3].w),
     gQuads[3].y - (gQuads[1].y + gQuads[1].h),
     gQuads[4].y - (gQuads[2].y + gQuads[2].h)}

\* C1: whenever the proof sheet is not downscaled (its width is at most
\* 1600), the four rectangles processImageNatural blurs and crops are
\* exactly the four rectangles stitchBurst drew the frames into.
C1_SameRectangles ==
    (gStage = "quadrants" /\ gGrid.w <= MAX_WIDTH)
        => \A i \in 1..4 : gQuads[i] = gGrid.rects[i]

\* What C7 says of the quadrants apart from their spacing: equal integer
\* sizes, no overlap, inside the (square) canvas.
C7_Shape ==
    /\ \A i \in 1..4 : gQuads[i].w = gQuads[1].w /\ gQuads[i].h = gQuads[1].h
    /\ \A i, j \in 1..4 : i # j => Disjoint(gQuads[i], gQuads[j])
    /\ \A i \in 1..4 :
          /\ 0 <= gQuads[i].x /\ gQuads[i].x + gQuads[i].w <= gCanvas.w
          /\ 0 <= gQuads[i].y /\ gQuads[i].y + gQuads[i].h <= gCanvas.h

\* C7 (as stated): the floored quadrants have one size, do not overlap, lie
\* inside the canvas, and neighbours are no further apart than the gap
\* 0.02 * S = 2 W / 212.
C7_GapWithinRatio ==
    gStage = "quadrants"
        => /\ C7_Shape
           /\ \A d \in Spacings : d * UnitDen <= GNum(gCanvas.w)

\* C7 (amended): the floored quadrants have one size, do not overlap, lie
\* inside the canvas, and neighbours are less than 0.02 * S + 2 pixels
\* apart: flooring x and w separately adds up to two pixels to the gap.
C7_GapWithinTwoPixels ==
    gStage = "quadrants"
        => /\ C7_Shape
           /\ \A d \in Spacings : d * UnitDen < GNum(gCanvas.w) + (2 * UnitDen)

\* C7's case: the quadrants of a full-size (1600 wide) canvas, 16 pixels
\* apart where the gap is 15.09.
C7_Witness ==
    /\ gStage = "quadrants"
    /\ gCanvas.w = MAX_WIDTH
    /\ gQuads[2].x - (gQuads[1].x + gQuads[1].w) = 16

\* C9: the working canvas is min(input width, 1600) wide, its height is the
\* input height scaled by the same factor (truncated to a pixel), and
\* neither the canvas nor a frame cropped from it exceeds the ceiling: the
\* quadrants are computed from the width after the downscale.
C9_SizeSafety ==
    gStage \in {"canvas", "quadrants"}
        => /\ gCanvas.w = Min(gGrid.w, MAX_WIDTH)
           /\ gCanvas.h * gGrid.w <= gGrid.h * gCanvas.w
           /\ gGrid.h * gCanvas.w < (gCanvas.h + 1) * gGrid.w
           /\ gCanvas.w <= MAX_WIDTH /\ gCanvas.h <= MAX_WIDTH
           /\ gStage = "quadrants"
                => \A i \in 1..4 :
                      /\ gQuads[i].w * UnitDen <= SNum(MAX_WIDTH)
                      /\ gQuads[i].w <= gCanvas.w
                      /\ gQuads[i].h <= gCanvas.h

\* C9's case: a proof sheet wider than 1600 (tiles of 755 and more) has
\* been downscaled and its quadrants computed.
C9_Witness ==
    /\ gStage = "quadrants"
    /\ gGrid.w > MAX_WIDTH
    /\ gCanvas.w = MAX_WIDTH
    /\ gQuads[1].w = 754

\* C10: resizeImage keeps the aspect ratio (up to the truncation of each
\* dimension to a pixel), never upscales, and leaves the longest edge at
\* most 800.
C10_LongestEdgeCapped ==
    gStage # "frame"
        => /\ gResized.w <= gImg.w /\ gResized.h <= gImg.h
           /\ Abs((gResized.w * gImg.h) - (gResized.h * gImg.w)) <= Max(gImg.w, gImg.h)
           /\ Max(gResized.w, gResized.h) <= TARGET_SIZE

\* The playback overlay of the detail screen (part_002 137-148), in
\* hundredths of a percent of the displayed sheet's width.
OverlayMarginLeft == 446

OverlayMarginTop == 1339

OverlayWidth == 9107

PercentDen == 10000

\* C19: on every proof sheet stitchBurst draws, the playback overlay (left
\* margin, top margin and width as fractions of the sheet's width) lies on
\* the grid of frames, from the padding P to W - P, to within a pixel on
\* each measure.
C19_OverlayOnGrid ==
    gStage = "stitched"
        => LET W     == gGrid.w
               left  == gGrid.rects[1].x
               top   == gGrid.rects[1].y
               width == (gGrid.rects[2].x + gGrid.rects[2].w) - gGrid.rects[1].x
           IN  /\ Abs((OverlayMarginLeft * W) - (PercentDen * left))  <= PercentDen
               /\ Abs((OverlayMarginTop * W)  - (PercentDen * top))   <= PercentDen
               /\ Abs((OverlayWidth * W)      - (PercentDen * width)) <= PercentDen

-----------------------------------------------------------------------------
(* Claims about stitchBurst and processImageNatural, checked under Spec *)

Gray(p) == p[1] = p[2] /\ p[2] = p[3]

\* The frame extracted for quadrant i (0..3) holds the composite's pixels at
\* the quadrant's floored rectangle.
FrameMatches(i) ==
    /\ i + 1 <= Len(processedFrames)
    /\ LET r  == FloorRect(Quadrants(canvas.w)[i + 1])
           bm == processedFrames[i + 1].bitmap
       IN  /\ bm.w = r.w /\ bm.h = r.h
           /\ \A p \in Coords(r.w, r.h) :
                 bm.px[p] = canvas.px[<<r.x + p[1], r.y + p[2]>>]

\* C2: when processImageNatural resolves, for every filter and every
\* quadrant index i in 0..3 the pixels of processedFrames[i] are the pixels
\* of the composite inside quadrant i's floored rectangle.
C2_FramesMatchComposite ==
    procPromise.state = "resolved" => \A i \in 0..3 : FrameMatches(i)

\* C3: for WILLIAM_400 and WILLIAM_H every pixel of the composite and of
\* every extracted frame, as they stand when the call resolves, has
\* R = G = B.
C3_Monochrome ==
    (procPromise.state = "resolved" /\ IsBW(filterType))
        => /\ \A p \in DOMAIN canvas.px : Gray(canvas.px[p])
           /\ \A i \in 1..Len(processedFrames) :
                 \A p \in DOMAIN processedFrames[i].bitmap.px :
                    Gray(processedFrames[i].bitmap.px[p])

\* C3's case: WILLIAM_H developed in full from a sheet of coloured frames,
\* on a runtime that ignores ctx.filter.
C3_Witness ==
    /\ procPromise.state = "resolved"
    /\ filterType = "WILLIAM_H"
    /\ passLog = <<"base", "blur", "blur", "look", "grain", "gray", "extract">>
    /\ Len(processedFrames) = 4
    /\ processedFrames[4].bitmap.w = 3
    /\ \E p \in DOMAIN stitchCanvas.px : ~Gray(stitchCanvas.px[p])

\* C4: stitchBurst called with a number of frames other than 4 rejects (the
\* wrong-count error), never resolves, and has created no canvas and
\* started no image decode; its promise is settled by that one call.
C4_WrongCountRejects ==
    (stitchPc # "idle" /\ Len(images) # 4)
        => /\ stitchPromise = [state |-> "rejected",
                               value |-> "Burst requires exactly 4 images"]
           /\ stitchSettles = 1
           /\ canvases = 0
           /\ decodes = 0

\* C4's case: a burst of 3 frames has been rejected.
C4_Witness ==
    /\ stitchPc = "done"
    /\ Len(images) = 3
    /\ stitchPromise.state = "rejected"

\* Every pass the filter requires is in the log, in the code's order.
RequiredPasses(f, blurs) ==
    <<"base">> \o [i \in 1..blurs |-> "blur"] \o <<"look", "grain">>
      \o (IF HasGlow(f) THEN <<"glow">> ELSE <<>>)
      \o (IF IsBW(f) THEN <<"gray">> ELSE <<>>)
      \o <<"extract">>

\* C5: processImageNatural resolves only with a composite on which every
\* pass the filter requires was applied and with exactly 4 frames: no
\* sub-step that found no 2D context was skipped.
C5_NoSilentSkip ==
    procPromise.state = "resolved"
        => /\ skipped = {}
           /\ Len(processedFrames) = 4
           /\ passLog = RequiredPasses(filterType,
                           IF BlurReaches(Quadrants(canvas.w)[1]) THEN 2 ELSE 0)

\* C6: once a frame has failed to decode, whatever the order of the load
\* events, stitchBurst does not resolve: while it waits the rejection is
\* due and the .then callback is not, and when it is done its promise is
\* rejected, settled by exactly one call.
C6_DecodeErrorRejects ==
    (\E i \in DOMAIN imgLoad : imgLoad[i] = "error")
        => /\ stitchPromise.state # "resolved"
           /\ stitchSettles <= 1
           /\ stitchPc = "waiting" => (ENABLED StitchCatch /\ ~ENABLED StitchThen)
           /\ stitchPc = "done"
                => stitchPromise.state = "rejected" /\ stitchSettles = 1

\* C6's case: the third frame failed after two had loaded, the call was
\* rejected, and the last frame loaded after that.
C6_Witness ==
    /\ stitchPc = "done"
    /\ stitchPromise.state = "rejected"
    /\ imgLoad = <<"loaded", "loaded", "error", "loaded">>

\* C8: for 4 frames of equal square size stitchBurst resolves with a square
\* canvas of side 2 S + G + 2 P holding frame i at column i mod 2 and row
\* floor(i / 2), and processImageNatural resolves with 4 frames, frame i
\* cropped from quadrant i.
C8_FramesInCaptureOrder ==
    /\ stitchPromise.state = "resolved"
         => LET S == resizedCanvases[1].w
                P == S \div 20
                G == S \div 50
            IN  /\ stitchCanvas.w = (2 * S) + G + (2 * P)
                /\ stitchCanvas.h = stitchCanvas.w
                /\ \A i \in 0..3 : \A p \in Coords(S, S) :
                      stitchCanvas.px[<<P + ((i % 2) * (S + G)) + p[1],
                                        P + ((i \div 2) * (S + G)) + p[2]>>]
                         = FramePixel(i, p[1], p[2])
    /\ procPromise.state = "resolved"
         => /\ Len(processedFrames) = 4
            /\ \A i \in 1..Len(processedFrames) : processedFrames[i].quadrant = i - 1

\* The base render of the call in progress (544-569): the decoded proof
\* sheet on the working canvas.
BaseRender ==
    LET img == Decoded(stitchPromise.value)
    IN  Resampled(img, 0, 0, img.w, img.h, TargetWidth(img.w), TargetHeight(img.w, img.h))

\* A second run of processImageNatural on the same proof sheet that gets
\* every context, blurs the quadrants idx, and draws the grain from the
\* random sequence `seed` on a runtime that honours ctx.filter or not.
Develop(f, idx, filterOk, seed) ==
    LET base    == BaseRender
        qs      == Quadrants(base.w)
        blurred == ApplyRegionBlur(ApplyRegionBlur(base, qs[idx[1] + 1], TRUE),
                                   qs[idx[2] + 1], TRUE)
        looked  == ApplyLook(blurred, f, filterOk)
        grained == ApplyGrain(looked, f, seed)
        glowed  == IF HasGlow(f) THEN ApplyGlow(grained) ELSE grained
    IN  IF EnforcedContrast(f) # 0
          THEN ApplyRobustGrayscaleAndContrast(glowed, EnforcedContrast(f))
          ELSE glowed

\* C11: a run that resolved with no step skipped has the composite, and so
\* the frames, of every other such run on the same proof sheet, filter and
\* runtime that blurs the same two quadrants, whatever random numbers the
\* other run draws for its grain.
C11_SameChoiceSameOutput ==
    (procPromise.state = "resolved" /\ skipped = {})
        => \E filterOk \in BOOLEAN :
              \A seed \in 0..(NumSeeds - 1) :
                 Develop(filterType, indices, filterOk, seed) = canvas

\* The place of a pass in the fixed order of the pipeline.
PassRank(pass) ==
    CASE pass = "base"    -> 1
      [] pass = "blur"    -> 2
      [] pass = "look"    -> 3
      [] pass = "grain"   -> 4
      [] pass = "glow"    -> 5
      [] pass = "gray"    -> 6
      [] pass = "extract" -> 7

\* The rank of the pass the handler is about to run.
PcRank(pc) ==
    CASE pc = "blur"    -> 2
      [] pc = "look"    -> 3
      [] pc = "grain"   -> 4
      [] pc = "glow"    -> 5
      [] pc = "gray"    -> 6
      [] pc = "extract" -> 7
      [] OTHER          -> 8

TwoOfFour == {s \in (0..3) \X (0..3) : s[1] < s[2]}

\* C13: the blur step draws its pick from all the 2-element subsets of the
\* 4 quadrants and picks 2 distinct ones; once it has run, the canvas
\* differs from the base render at most inside the floored rectangles of
\* the two picked quadrants.
C13_BlurInsideTwoQuadrants ==
    /\ IndexChoices = TwoOfFour
    /\ procPc = "look"
          => /\ Len(indices) = 2
             /\ indices[1] # indices[2]
             /\ {indices[1], indices[2]} \subseteq 0..3
             /\ LET base == BaseRender
                IN  \A p \in DOMAIN canvas.px :
                       canvas.px[p] # base.px[p]
                          => \E i \in 1..2 :
                                InRect(p, FloorRect(Quadrants(canvas.w)[indices[i] + 1]))

\* C13's case: quadrants 1 and 2 were picked and the blur changed pixels.
C13_Witness ==
    /\ procPc = "look"
    /\ indices = <<1, 2>>
    /\ passLog = <<"base", "blur", "blur">>
    /\ canvas # BaseRender

\* C14: a call that resolves has run the glow pass if and only if the stock
\* is not WILLIAM_H.
C14_GlowButForHigh ==
    procPromise.state = "resolved"
        => (("glow" \in {passLog[i] : i \in 1..Len(passLog)}) <=> filterType # "WILLIAM_H")

-----------------------------------------------------------------------------
(* Claims about the application, checked under SpecApp *)

\* Every copy of a photo the program holds: in the list, in the store, in
\* the store's answer to initializeDB, in handleCapture and in the closures
\* of the calls in flight.
Copies ==
    {photos[id] : id \in DOMAIN photos} \cup {db[id] : id \in DOMAIN db}
        \cup {dbInit.dbPhotos[id] : id \in DOMAIN dbInit.dbPhotos}
        \cup captures \cup {r.snap : r \in runs}

C16_FailureMarksFailed ==
    (/\ detail.photo \in DOMAIN photos
     /\ detail.error = "Development Failed"
     /\ photos[detail.photo].processedUrl = 0)
        => photos[detail.photo].status = "failed"

\* The images of a photo.
Artifacts(photo) ==
    <<photo.originalUrl, photo.processedUrl, photo.processedFrames, photo.posterUrl>>

\* A completed photo with its developed sheet, frames and poster.
FullyDeveloped(photo) ==
    /\ photo.status = "completed"
    /\ photo.processedUrl # 0
    /\ photo.processedFrames # 0
    /\ photo.posterUrl # 0

\* C17: once the stored photos are loaded, no step changes the original,
\* the developed sheet, the developed frames or the poster of a fully
\* developed photo that stays in the list.
C17_DevelopedIsFinal ==
    [][\A id \in DOMAIN photos :
          (/\ dbInit.phase = "ready"
           /\ FullyDeveloped(photos[id])
           /\ id \in DOMAIN photos')
              => Artifacts(photos'[id]) = Artifacts(photos[id])]_vars

\* What the capture put in a photo.
Captured(photo) ==
    <<photo.id, photo.originalUrl, photo.frames, photo.timestamp, photo.filter,
      photo.locationName, photo.coordinates>>

C20_PublishedAfterDeveloped ==
    [][/\ feed' # feed
             => \E r \in runs :
                   /\ r.phase = "upload"
                   /\ r \notin runs'
                   /\ r.snap.processedUrl # 0
                   /\ feed' = feed \cup {[photo |-> r.snap.id,
                                          mainImageUrl |-> r.snap.processedUrl,
                                          n |-> r.n]}
       /\ \A post \in feed' : post.mainImageUrl # 0]_vars

\* C20's case: uploadPost was called with an undeveloped photo (its
\* develop had failed) and threw; nothing is on the feed.
C20_Witness ==
    /\ detail.photo \in DOMAIN photos
    /\ detail.error = "Upload Failed"
    /\ photos[detail.photo].processedUrl = 0
    /\ runs = {}
    /\ feed = {}

\* Call r is over after the step.
Ends(r) == \A q \in runs' : q.n # r.n

\* The images of run n.
MadeBy(photo, n) ==
    photo.processedUrl = n \/ photo.processedFrames = n \/ photo.posterUrl = n

\* The step left the whole output of develop call r in the store.
Delivered(r) ==
    /\ r.snap.id \in DOMAIN db'
    /\ db'[r.snap.id].status = "completed"
    /\ db'[r.snap.id].processedUrl = r.n
    /\ db'[r.snap.id].processedFrames = r.n
    /\ variant = "poster" => db'[r.snap.id].posterUrl = r.n

\* C21: a developPhoto call that ends without delivering its whole output
\* leaves the list and the store as they were (none of its images is in a
\* record) and clears the processing flag of the screen that started it;
\* while a call is in flight, no record holds an image of it.
C21_NoPartialResult ==
    [][\A r \in runs :
          r.kind = "develop"
             => /\ \A photo \in Copies : ~MadeBy(photo, r.n)
                /\ (Ends(r) /\ ~Delivered(r))
                      => /\ photos' = photos
                         /\ db' = db
                         /\ (r.attached /\ detail.photo # 0) => ~detail'.isProcessing]_vars

\* C21's case: developing failed on part_000's screen; the flag is cleared
\* and the photo has none of the three images.
C21_Witness ==
    /\ variant = "poster"
    /\ detail.photo \in DOMAIN photos
    /\ detail.error = "Development Failed"
    /\ ~detail.isProcessing
    /\ runs = {}
    /\ Artifacts(photos[detail.photo]) = <<detail.photo, 0, 0, 0>>


-----------------------------------------------------------------------------
(* Claims about captureFrame, checked under SpecShot *)

\* C22: whatever the size of the video, a captureFrame call that had a
\* context returns a square image of side min(min(videoWidth, videoHeight),
\* 1080), drawn from a square of side min(videoWidth, videoHeight) that is
\* centred in the video frame and lies inside it.
C22_SquareCentredCrop ==
    (shot.stage = "returned" /\ shot.frame.kind # "null")
        => /\ shot.frame.kind = "jpeg"
           /\ shot.frame.w = Min(Min(shot.video.w, shot.video.h), MAX_CAPTURE_SIZE)
           /\ shot.frame.h = shot.frame.w
           /\ shot.crop.minDim = Min(shot.video.w, shot.video.h)
           /\ shot.crop.startX2 >= 0
           /\ shot.crop.startX2 + 2 * shot.crop.minDim <= 2 * shot.video.w
           /\ shot.crop.startY2 >= 0
           /\ shot.crop.startY2 + 2 * shot.crop.minDim <= 2 * shot.video.h
           /\ shot.crop.startX2 = shot.video.w - shot.crop.minDim
           /\ shot.crop.startY2 = shot.video.h - shot.crop.minDim


-----------------------------------------------------------------------------
(* Claims about applyRobustGrayscaleAndContrast, checked under SpecGray *)

\* clamp((0.299 R + 0.587 G + 0.114 B - 128) k + 128, 0, 255) in units of
\* 1/100000, k in hundredths.
ClampedStretch(data, k) ==
    LET lum == (299 * data[1]) + (587 * data[2]) + (114 * data[3])
        str == ((lum - 128000) * k) + 12800000
    IN  Max(0, Min(25500000, str))

\* The contrast the claim names for a stock, in hundredths.
StockContrast(f) == IF f = "WILLIAM_400" THEN 100 ELSE 125

\* C23: a pixel that has been through applyRobustGrayscaleAndContrast has
\* its three colour channels equal, each the byte nearest to
\* clamp((0.299 R + 0.587 G + 0.114 B - 128) k + 128, 0, 255) with k = 1.0
\* for WILLIAM_400 and 1.25 for WILLIAM_H, hence within 0..255, and its
\* alpha as it was.
C23_GrayFormula ==
    pixel.stage = "written"
        => LET v == pixel.written[1]
               t == ClampedStretch(pixel.data, StockContrast(pixel.filterType))
           IN  /\ pixel.written[2] = v
               /\ pixel.written[3] = v
               /\ v \in 0..255
               /\ 2 * Abs((v * 100000) - t) <= 100000
               /\ pixel.written[4] = pixel.data[4]

\* C23's case: on WILLIAM_H the pixel (200, 100, 30) of luminosity 121.92
\* is stretched to 120.4 and stored as 120, its alpha 128 kept.
C23_Witness ==
    /\ pixel.stage = "written"
    /\ pixel.filterType = "WILLIAM_H"
    /\ pixel.data = <<200, 100, 30, 128>>
    /\ pixel.written = <<120, 120, 120, 128>>


-----------------------------------------------------------------------------
(* Claims about the camera screen, checked under SpecCam *)

\* C24: at most one burst is in progress at any time: no takeBurst call
\* gets past its test while another call is capturing or stitching, and
\* once no call is in flight the camera is idle (isTakingPhoto false,
\* burstCount 0); every photo handed to onCapture is 'pending' and comes
\* from four frames.
C24_OneBurstAtATime ==
    /\ Cardinality(camera.bursts) <= 1
    /\ camera.bursts = {} => ~camera.isTakingPhoto /\ camera.burstCount = 0
    /\ \A b \in camera.bursts : b.phase = "stitching" => b.shots = BURST_SIZE
    /\ \A photo \in captures : photo.status = "pending"


-----------------------------------------------------------------------------
(* Claims about the playback loop, checked under SpecPlay *)

Playing == player.stage = "mounted" /\ player.isPlaying /\ player.n > 0

\* The state the loop is kept in.
PlayOrdered ==
    player.stage # "off" =>
        /\ player.n > 0 => player.currentFrameIndex \in 0..(player.n - 1)
        /\ ~player.isPlaying => player.currentFrameIndex = 0
        /\ Cardinality(player.timers) <= 1
        /\ ~player.isPlaying \/ player.stage = "unmounted" => player.timers = {}

\* A tick while playback is on moves the index one frame on, modulo n.
TickAdvances ==
    Playing /\ player'.last = "tick" =>
        player'.currentFrameIndex = (player.currentFrameIndex + 1) % player.n

\* C25: in the playback loop over n > 0 frames the frame index stays
\* within 0..n-1, moves on by exactly one modulo n at each timer tick while
\* playback is on and is 0 whenever playback is off; at most one interval
\* timer is set per view, and none once playback is stopped or the view is
\* unmounted.
C25_PlaybackLoop == [](PlayOrdered) /\ [][TickAdvances]_vars

\* The loop has gone round: a tick took the index of a playing view from
\* the last frame back to the first.
C25_Witness ==
    /\ Playing
    /\ player.n = BURST_SIZE
    /\ player.last = "tick"
    /\ player.currentFrameIndex = 0


-----------------------------------------------------------------------------
(* Claims about deletion, selection and loading, checked under SpecApp *)

\* C26: once handleDeletePhoto(id) has been called, photo id is in neither
\* the list nor the store, and stays so: a develop run that was in flight
\* at the deletion does not write it back.
C26_DeletedStaysDeleted ==
    \A id \in deleted : id \notin DOMAIN photos /\ id \notin DOMAIN db


\* The develop runs in flight for photo id.
DevelopsOf(id) == {r \in runs : r.kind = "develop" /\ r.snap.id = id}

\* C27: at most one develop run is in flight per photo at any time; going
\* back from the detail screen of a photo that is developing and opening
\* it again does not start a second run.
C27_OneDevelopPerPhoto ==
    \A id \in DOMAIN photos : Cardinality(DevelopsOf(id)) <= 1


\* The records of photo id the application holds: in the list and in the
\* store.
Records == {photos[id] : id \in DOMAIN photos} \cup {db[id] : id \in DOMAIN db}

C29_DetailHasPhoto ==
    view = "PHOTO_DETAIL" => selectedPhotoId \in DOMAIN photos


\* C30: a photo handed to handleCapture stays in the list until it is
\* deleted; the load of the stored photos, which replaces the list, removes
\* no photo captured before the load finished.
C30_CapturedStaysListed ==
    \A photo \in captures : photo.id \in DOMAIN photos \/ photo.id \in deleted

=============================================================================
